---- MODULE Spec2Model ----
(***************************************************************************)
(* Ripple: the publish manager (internal/service/publisher/manager.go),    *)
(* the publisher service that drives it (ProcessPendingPages) and the      *)
(* HTTP / scheduler entry points, over the job and platform tables.        *)
(*                                                                         *)
(* A handler is executed by a worker; its position is the worker's pc.     *)
(* Every database statement and every adapter call of a handler is one     *)
(* step, so that handlers can be interleaved between any two statements.   *)
(*                                                                         *)
(* The store executes every statement it is given; the one statement that  *)
(* can fail is the insert of a platform whose name exists (unique index).  *)
(***************************************************************************)
EXTENDS Integers, Sequences, FiniteSets, TLC

\* ------------------------------------------------------------------ bounds
\* cap on the number of rows of the distribution_jobs table: a handler that
\* is about to insert a row into a full table goes no further
MaxJobs == 2

\* page ids (rows of notion_pages with status "Done")
Pages == {1, 2}

\* the goroutine of the scheduler and one HTTP request goroutine
Workers == {"scheduler", "api"}

\* the platform labels a Notion page may declare: none, an unknown label, an
\* alias, a platform name, and pairs that mix them or map to one platform
LabelLists ==
    {<<>>, <<"Medium">>, <<"al-folio">>,
     <<"Medium", "WeChat">>, <<"Substack", "Blog">>, <<"Jekyll", "al-folio">>}

\* the notion_pages tables a cycle may find: page 1 declares an unknown
\* label, a platform name or two aliases of one platform, page 2 declares
\* nothing or a platform name
PageTables ==
    {t \in [Pages -> LabelLists] :
        /\ t[1] \in {<<"Medium">>, <<"al-folio">>, <<"Jekyll", "al-folio">>}
        /\ t[2] \in {<<>>, <<"al-folio">>}}

\* ------------------------------------------------------- program constants
\* the platform names of the three adapters of registerPublishers
AllPlatforms == {"al-folio", "wechat-official", "substack"}

\* the lookup table of mapPlatformName ("WeiXinGongZhongHao" stands for the
\* Chinese label of the WeChat official account, which is not ASCII)
platformMap ==
    [l \in {"Blog", "blog", "Jekyll", "jekyll", "WeiXinGongZhongHao", "WeChat",
            "wechat", "Substack", "substack", "al-folio", "wechat-official"} |->
        CASE l \in {"Blog", "blog", "Jekyll", "jekyll", "al-folio"} -> "al-folio"
          [] l \in {"WeiXinGongZhongHao", "WeChat", "wechat", "wechat-official"} ->
                "wechat-official"
          [] OTHER -> "substack"]

\* mapPlatformName: the canonical key of a label, "" for an unknown label
mapPlatformName(notionPlatform) ==
    IF notionPlatform \in DOMAIN platformMap THEN platformMap[notionPlatform] ELSE ""

\* ------------------------------------------------------------------- state
VARIABLES
    publishers,   \* Manager.publishers: the registered platform names
    configs,      \* Manager.configs: "missing", "enabled" or "disabled" per name
    platforms,    \* platforms table: the row with ID i has Name platforms[i]
    jobs,         \* distribution_jobs table: the row with ID i is jobs[i]
    workers,      \* per worker: the handler it runs and its local variables
    adapter,      \* one adapter instance: its fields and its last call
    render,       \* one conversion: the blocks, the converter and its output
    span,         \* one rich-text span, the converter that formats it and its output
    images,       \* one content with images, the processor that handles it and its output
    sched,        \* the scheduler: its ticker, its channels and its two goroutines
    store,        \* the Done pages, the statuses of their rows and the last cycle over them
    repo,         \* the working tree and the commits of the al-folio repository
    auth          \* the authentication service and the last request

\* the manager and its tables
manager == <<publishers, configs, platforms, jobs, workers>>

\* what is exercised on its own, outside the manager
units == <<adapter, render, span, images, sched, store, repo, auth>>

\* all variables but one
notAdapter == <<manager, render, span, images, sched, store, repo, auth>>
notRender == <<manager, adapter, span, images, sched, store, repo, auth>>
notSpan == <<manager, adapter, render, images, sched, store, repo, auth>>
notImages == <<manager, adapter, render, span, sched, store, repo, auth>>
notSched == <<manager, adapter, render, span, images, store, repo, auth>>
notStore == <<manager, adapter, render, span, images, sched, repo, auth>>
notRepo == <<manager, adapter, render, span, images, sched, store, auth>>
notAuth == <<manager, adapter, render, span, images, sched, store, repo>>

vars == <<manager, units>>

\* ---------------------------------------------------------------- adapters
\* What an adapter does during one call of a handler, by its first failing
\* stage.  The Publisher interface leaves all of these open.
Behaviours ==
    {"ok", "okNoID", "cleanupErr", "initErr", "transformErr", "publishErr",
     "publishFail"}

EmptyID == <<>>
PubID == <<"pub", 0>>

\* PublishResult{Success, PublishID, Error}
Result(success, publishID, error) ==
    [Success |-> success, PublishID |-> publishID, Error |-> error]

NoResult == Result(FALSE, EmptyID, "no result")

Failure(error) == Result(FALSE, EmptyID, error)

\* the text of the error an adapter returns
AdapterError == "adapter error"

\* the error of ValidateConfig under a configuration that lacks a required key
ConfigError == "missing required config"

\* Publisher.Initialize: the error it returns, "" for nil
Initialize(b) ==
    IF b = "configErr" THEN ConfigError
    ELSE IF b = "initErr" THEN AdapterError ELSE ""

\* Publisher.TransformContent: the error it returns
TransformContent(b) == IF b = "transformErr" THEN AdapterError ELSE ""

\* Publisher.ProcessResources: the error it returns
ProcessResources(b) == IF b = "resourceErr" THEN AdapterError ELSE ""

\* Publisher.Cleanup: the error it returns
Cleanup(b) == IF b = "cleanupErr" THEN AdapterError ELSE ""

\* the draft-or-publish stage shared by SaveToDraft and PublishDirect:
\* (result, err) as the pair [err, result]
Attempt(b) ==
    CASE b = "publishErr" -> [err |-> AdapterError, result |-> NoResult]
      [] b = "publishFail" -> [err |-> "", result |-> Failure(AdapterError)]
      [] b = "okNoID" -> [err |-> "", result |-> Result(TRUE, EmptyID, "")]
      [] OTHER -> [err |-> "", result |-> Result(TRUE, PubID, "")]

\* Publisher.SaveToDraft on content that is already transformed
SaveToDraft(b) == Attempt(b)

\* Publisher.PublishDirect: Transform, ProcessResources, then draft/publish;
\* a failing Transform or ProcessResources gives a result with Success=false
PublishDirect(b) ==
    IF TransformContent(b) # "" THEN [err |-> "", result |-> Failure(TransformContent(b))]
    ELSE IF ProcessResources(b) # "" THEN [err |-> "", result |-> Failure(ProcessResources(b))]
    ELSE Attempt(b)

\* ------------------------------------------------------------------ tables
\* models.DistributionJob as persisted
JobRow(pageID, platformID, status, error, publishedAt) ==
    [PageID |-> pageID, PlatformID |-> platformID, Status |-> status,
     Error |-> error, PublishedAt |-> publishedAt]

\* the job struct a handler holds in memory: the row and its primary key
NoJob == [ID |-> 0, row |-> JobRow(0, 0, "", "", FALSE)]

\* db.Where("name = ?", platformName).First(&platform): the ID, 0 if none
PlatformByName(P, name) ==
    IF \E i \in 1..Len(P) : P[i] = name
    THEN CHOOSE i \in 1..Len(P) : P[i] = name
    ELSE 0

\* the IDs of the completed jobs of (page, platform)
CompletedJobs(J, pageID, platformID) ==
    {i \in 1..Len(J) : /\ J[i].PageID = pageID
                       /\ J[i].PlatformID = platformID
                       /\ J[i].Status = "completed"}

Min(S) == CHOOSE x \in S : \A y \in S : x <= y

\* db.Where("page_id = ? AND platform_id = ? AND status = ?", ...).First:
\* the ID of the first completed job by primary key, 0 if there is none
FirstCompleted(J, pageID, platformID) ==
    IF CompletedJobs(J, pageID, platformID) = {}
    THEN 0
    ELSE Min(CompletedJobs(J, pageID, platformID))

\* ----------------------------------------------------------------- workers
IdleWorker ==
    [pc |-> "idle", entry |-> "none", pageQueue |-> <<>>, page |-> 0,
     labels |-> <<>>, batch |-> <<>>, idx |-> 0, platformID |-> 0,
     job |-> NoJob, isDraft |-> FALSE,
     beh |-> [p \in AllPlatforms |-> "unset"],
     result |-> NoResult,
     results |-> [p \in AllPlatforms |-> NoResult],
     calls |-> {}, created |-> <<>>, updated |-> <<>>, attempts |-> <<>>,
     jobs0 |-> <<>>, platforms0 |-> <<>>,
     republish |-> NoJob]

\* what a step of a handler yields: the worker and the two tables
Out(w, J, P) == [w |-> w, jobs |-> J, platforms |-> P]

\* the platform of the current iteration of the loop of PublishToPlatforms
Cur(w) == w.batch[w.idx]

\* results[platformName] = r; continue
Continue(w, r) ==
    [w EXCEPT !.results[Cur(w)] = r, !.idx = w.idx + 1, !.pc = "loop",
              !.platformID = 0, !.job = NoJob, !.result = NoResult]

\* return result: PublishSinglePlatform returns its one result
Finish(w, r) == [Continue(w, r) EXCEPT !.pc = "ret"]

Called(w, op) == w.calls \cup {<<Cur(w), op>>}

\* ------------------------------------------- Manager.PublishToPlatforms
\* the loop head without the Enabled check
lookupPublisherAnyConfig(w, J, P) ==
    IF w.idx > Len(w.batch) THEN Out([w EXCEPT !.pc = "ret"], J, P)
    ELSE IF Cur(w) \notin publishers
        THEN Out(Continue(w, Failure("publisher not found")), J, P)
    ELSE IF configs[Cur(w)] = "missing"
        THEN Out(Continue(w, Failure("config not found")), J, P)
    ELSE Out([w EXCEPT !.pc = "getid"], J, P)

\* the head of the loop over platforms: GetPublisher, GetPlatformConfig and
\* the Enabled check; past the last platform the call returns its results
lookupPublisher(w, J, P) ==
    IF w.idx > Len(w.batch) THEN Out([w EXCEPT !.pc = "ret"], J, P)
    ELSE IF Cur(w) \notin publishers
        THEN Out(Continue(w, Failure("publisher not found")), J, P)
    ELSE IF configs[Cur(w)] = "missing"
        THEN Out(Continue(w, Failure("config not found")), J, P)
    ELSE IF configs[Cur(w)] = "disabled"
        THEN Out(Continue(w, Failure("platform is disabled")), J, P)
    ELSE Out([w EXCEPT !.pc = "getid"], J, P)

\* where a handler goes on once it has the platform ID
AfterID(w) == IF w.entry \in {"single", "draft"} THEN "record" ELSE "check"

\* getPlatformID, the query: the ID of the platform row of that name
getPlatformID(w, J, P) ==
    IF PlatformByName(P, Cur(w)) # 0
    THEN Out([w EXCEPT !.platformID = PlatformByName(P, Cur(w)), !.pc = AfterID(w)], J, P)
    ELSE Out([w EXCEPT !.pc = "mkplat"], J, P)

\* getPlatformID, the lazy creation: Name has a unique index, so creating a
\* name that is there by now fails, getPlatformID returns 0 and the caller
\* reports the failure
createPlatform(w, J, P) ==
    IF PlatformByName(P, Cur(w)) # 0
    THEN Out(IF w.entry \in {"single", "draft"}
             THEN Finish(w, Failure("failed to get platform ID"))
             ELSE Continue(w, Failure("failed to get platform ID")), J, P)
    ELSE Out([w EXCEPT !.platformID = Len(P) + 1, !.pc = AfterID(w)], J, Append(P, Cur(w)))

\* the check left out: every dispatch goes on to create a job
checkCompletedNever(w, J, P) == Out([w EXCEPT !.pc = "create"], J, P)

\* the check for a completed job of (page, platform)
checkCompleted(w, J, P) ==
    IF FirstCompleted(J, w.page, w.platformID) # 0
    THEN Out(Continue(w, Result(TRUE,
                <<"existing-job", FirstCompleted(J, w.page, w.platformID)>>, "")), J, P)
    ELSE Out([w EXCEPT !.pc = "create"], J, P)

\* the record a handler keeps of a row it inserted
Created(w, J, status) == Append(w.created, [ID |-> Len(J) + 1, Status |-> status])

\* an insert that takes over the in_progress row of (page, platform) if
\* there is one
createJobIfAbsent(w, J, P) ==
    LET row == JobRow(w.page, w.platformID, "in_progress", "", FALSE)
        same == {i \in 1..Len(J) : J[i] = row}
    IN  IF same # {}
        THEN Out([w EXCEPT !.job = [ID |-> Min(same), row |-> row], !.pc = "init"], J, P)
        ELSE Out([w EXCEPT !.job = [ID |-> Len(J) + 1, row |-> row],
                           !.created = Created(w, J, "in_progress"),
                           !.pc = "init"],
                 Append(J, row), P)

\* m.db.Create(job) of the in_progress job
createJob(w, J, P) ==
    LET row == JobRow(w.page, w.platformID, "in_progress", "", FALSE)
    IN  Out([w EXCEPT !.job = [ID |-> Len(J) + 1, row |-> row],
                      !.created = Created(w, J, "in_progress"),
                      !.pc = "init"],
            Append(J, row), P)

\* m.db.Create(job) returns an error: the error is logged, no row is
\* inserted, the struct keeps the primary key zero and the iteration goes on
createJobFails(w, J, P) ==
    LET row == JobRow(w.page, w.platformID, "in_progress", "", FALSE)
    IN  Out([w EXCEPT !.job = [ID |-> 0, row |-> row], !.pc = "init"], J, P)

\* db.Save(job): writes every field of the struct to the row of its primary
\* key, and inserts a row when the primary key is zero
Save(J, job) ==
    IF job.ID \in 1..Len(J) THEN [J EXCEPT ![job.ID] = job.row] ELSE Append(J, job.row)

\* updateJobStatus with its two string arguments taken for one another
updateJobStatusSwapped(w, J, status, errorMsg) ==
    LET job == [w.job EXCEPT !.row.Status = errorMsg, !.row.Error = status]
    IN  [w |-> [w EXCEPT !.job = job, !.updated = Append(@, job.ID)],
         jobs |-> Save(J, job)]

\* updateJobStatus: job.Status, job.Error, then Save
updateJobStatus(w, J, status, errorMsg) ==
    LET job == [w.job EXCEPT !.row.Status = status, !.row.Error = errorMsg]
    IN  [w |-> [w EXCEPT !.job = job, !.updated = Append(@, job.ID)],
         jobs |-> Save(J, job)]

\* the adapter behaves as it did before in this call, or as b on its first use
WithBehaviour(w, b) == [w EXCEPT !.beh[Cur(w)] = IF @ = "unset" THEN b ELSE @]

\* Initialize whose failure leaves the job as it was inserted
initializeNoUpdate(w, J, P, b) ==
    LET w1 == [WithBehaviour(w, b) EXCEPT !.calls = Called(w, "Initialize")]
        err == Initialize(w1.beh[Cur(w)])
    IN  IF err # ""
        THEN Out(Continue(w1, Failure(err)), J, P)
        ELSE Out([w1 EXCEPT !.pc = "publish"], J, P)

\* Initialize whose failure ends the whole call
initializeOrReturn(w, J, P, b) ==
    LET w1 == [WithBehaviour(w, b) EXCEPT !.calls = Called(w, "Initialize")]
        err == Initialize(w1.beh[Cur(w)])
        u == updateJobStatus(w1, J, "failed", err)
    IN  IF err # ""
        THEN Out([Continue(u.w, Failure(err)) EXCEPT !.pc = "ret"], u.jobs, P)
        ELSE Out([w1 EXCEPT !.pc = "publish"], J, P)

\* publisher.Initialize; when it fails the job is marked failed
initialize(w, J, P, b) ==
    LET w1 == [WithBehaviour(w, b) EXCEPT !.calls = Called(w, "Initialize")]
        err == Initialize(w1.beh[Cur(w)])
        u == updateJobStatus(w1, J, "failed", err)
    IN  IF err # ""
        THEN Out(Continue(u.w, Failure(err)), u.jobs, P)
        ELSE Out([w1 EXCEPT !.pc = "publish"], J, P)

\* what an iteration that reached PublishDirect did: its platform and job,
\* what PublishDirect returned, how often Cleanup was called and the error
\* of Cleanup
Attempted(w, r, cleanups, cleanupErr) ==
    Append(w.attempts,
           [platform |-> Cur(w), job |-> w.job.ID, err |-> r.err, result |-> r.result,
            cleanups |-> cleanups, cleanupErr |-> cleanupErr])

\* a failing Cleanup fails the attempt
publishContentCleanupSurfaced(w, J, P) ==
    LET w1 == [w EXCEPT !.calls = Called(w, "PublishDirect")]
        r == PublishDirect(w.beh[Cur(w)])
        result == r.result
        cleanupErr == Cleanup(w.beh[Cur(w)])
        clean == r.err = "" /\ result.Success /\ result.PublishID # EmptyID
        u == IF r.err # "" THEN updateJobStatus(w1, J, "failed", r.err)
             ELSE IF clean /\ cleanupErr # "" THEN updateJobStatus(w1, J, "failed", cleanupErr)
             ELSE IF result.Success THEN updateJobStatus(w1, J, "completed", "")
             ELSE updateJobStatus(w1, J, "failed",
                    IF result.Error # "" THEN result.Error ELSE "unknown error")
        w3 == IF clean
              THEN [u.w EXCEPT !.calls = Called(w, "Cleanup") \cup u.w.calls,
                               !.attempts = Attempted(w, r, 1, cleanupErr)]
              ELSE [u.w EXCEPT !.attempts = Attempted(w, r, 0, "")]
    IN  IF r.err # ""
        THEN Out(Continue(w3, Failure(r.err)), u.jobs, P)
        ELSE IF clean /\ cleanupErr # ""
        THEN Out(Continue(w3, Failure(cleanupErr)), u.jobs, P)
        ELSE Out(Continue(w3, result), u.jobs, P)

\* publisher.PublishDirect, the update of the job, Cleanup and the result;
\* the error of Cleanup is logged
publishContent(w, J, P) ==
    LET w1 == [w EXCEPT !.calls = Called(w, "PublishDirect")]
        r == PublishDirect(w.beh[Cur(w)])
        result == r.result
        u == IF r.err # "" THEN updateJobStatus(w1, J, "failed", r.err)
             ELSE IF result.Success THEN updateJobStatus(w1, J, "completed", "")
             ELSE updateJobStatus(w1, J, "failed",
                    IF result.Error # "" THEN result.Error ELSE "unknown error")
        \* job.PublishedAt is assigned after the Save and never saved
        w2 == IF r.err = "" /\ result.Success
              THEN [u.w EXCEPT !.job.row.PublishedAt = TRUE] ELSE u.w
        w3 == IF r.err = "" /\ result.Success /\ result.PublishID # EmptyID
              THEN [w2 EXCEPT !.calls = Called(w, "Cleanup") \cup w2.calls,
                              !.attempts = Attempted(w, r, 1, Cleanup(w.beh[Cur(w)]))]
              ELSE [w2 EXCEPT !.attempts = Attempted(w, r, 0, "")]
    IN  IF r.err # ""
        THEN Out(Continue([u.w EXCEPT !.attempts = Attempted(w, r, 0, "")],
                          Failure(r.err)), u.jobs, P)
        ELSE Out(Continue(w3, result), u.jobs, P)

\* ----------------------------------------- Manager.PublishSinglePlatform
\* everything up to the job record: the lookups, Initialize, TransformContent,
\* ProcessResources and SaveToDraft or PublishDirect
publishSingle(w, J, P, b) ==
    LET w0 == WithBehaviour(w, b)
        bb == w0.beh[Cur(w)]
        w1 == [w0 EXCEPT !.calls = Called(w, "Initialize")]
        w2 == [w1 EXCEPT !.calls = w1.calls \cup Called(w, "TransformContent")]
        w3 == [w2 EXCEPT !.calls = w2.calls \cup Called(w, "ProcessResources")]
        w4 == [w3 EXCEPT !.calls = w3.calls \cup
                    Called(w, IF w.isDraft THEN "SaveToDraft" ELSE "PublishDirect")]
        r == IF w.isDraft THEN SaveToDraft(bb) ELSE PublishDirect(bb)
        status == IF ~r.result.Success THEN "failed"
                  ELSE IF w.isDraft THEN "draft" ELSE "completed"
    IN  IF Cur(w) \notin publishers
            THEN Out(Finish(w, Failure("publisher not found")), J, P)
        ELSE IF configs[Cur(w)] = "missing"
            THEN Out(Finish(w, Failure("config not found")), J, P)
        ELSE IF configs[Cur(w)] = "disabled"
            THEN Out(Finish(w, Failure("platform is disabled")), J, P)
        ELSE IF Initialize(bb) # "" THEN Out(Finish(w1, Failure(Initialize(bb))), J, P)
        ELSE IF TransformContent(bb) # ""
            THEN Out(Finish(w2, Failure(TransformContent(bb))), J, P)
        ELSE IF ProcessResources(bb) # ""
            THEN Out(Finish(w3, Failure(ProcessResources(bb))), J, P)
        ELSE IF r.err # "" THEN Out(Finish(w4, Failure(r.err)), J, P)
        ELSE Out([w4 EXCEPT !.result = r.result,
                            !.job = [ID |-> 0,
                                     row |-> JobRow(w.page, 0, status, r.result.Error,
                                                    r.result.Success /\ ~w.isDraft)],
                            !.pc = "getid"], J, P)

\* m.db.Create(job) of the finished job, and the result
recordJob(w, J, P) ==
    LET row == [w.job.row EXCEPT !.PlatformID = w.platformID]
    IN  Out(Finish([w EXCEPT !.created = Created(w, J, row.Status)], w.result),
            Append(J, row), P)

\* one step of a handler from where it stands; b is what the adapter does
\* if this step is its first use in the call
Step(w, J, P, b) ==
    CASE w.pc = "loop" -> lookupPublisher(w, J, P)
      [] w.pc = "getid" -> getPlatformID(w, J, P)
      [] w.pc = "mkplat" -> createPlatform(w, J, P)
      [] w.pc = "check" -> checkCompleted(w, J, P)
      [] w.pc = "create" -> createJob(w, J, P)
      [] w.pc = "init" -> initialize(w, J, P, b)
      [] w.pc = "publish" -> publishContent(w, J, P)
      [] w.pc = "single" -> publishSingle(w, J, P, b)
      [] w.pc = "record" -> recordJob(w, J, P)
      [] OTHER -> Out(w, J, P)

\* a call run from where it stands to its return, with nothing in between
RECURSIVE RunToReturn(_, _, _)
RunToReturn(w, J, P) ==
    IF w.pc \notin {"loop", "getid", "mkplat", "check", "create", "init", "publish",
                    "single", "record"}
    THEN Out(w, J, P)
    ELSE LET r == Step(w, J, P, "ok") IN RunToReturn(r.w, r.jobs, r.platforms)

\* ------------------------------------------------------- PublisherService
\* needsPublishing: platformStatus[job.Platform.Name] = job.Status over the
\* jobs of the page, in the order the query returns them (it has no ORDER
\* BY, so any job of a name may be the one that stays in the map); the
\* statuses the map can hold for a name
StatusesOf(J, P, pageID, name) ==
    {J[i].Status : i \in {k \in 1..Len(J) : /\ J[k].PageID = pageID
                                            /\ P[J[k].PlatformID] = name}}

\* a page needs publishing only for a label that has no row at all
needsPublishingUntried(J, P, pageID, labels) ==
    {\E k \in 1..Len(labels) : StatusesOf(J, P, pageID, labels[k]) = {}}

\* needsPublishing: the answers it can give.  The labels of the page are
\* looked up in the map as they are, without mapPlatformName
needsPublishing(J, P, pageID, labels) ==
    {TRUE : i \in {k \in 1..Len(labels) :
                    \/ StatusesOf(J, P, pageID, labels[k]) = {}
                    \/ StatusesOf(J, P, pageID, labels[k]) # {"completed"}}}
    \cup
    {FALSE : x \in {y \in {0} :
                    \A k \in 1..Len(labels) :
                        "completed" \in StatusesOf(J, P, pageID, labels[k])}}

\* the orders in which a query without ORDER BY can return the pages
PageOrders ==
    {o \in [1..Cardinality(Pages) -> Pages] : \A p \in Pages : \E i \in DOMAIN o : o[i] = p}

\* a handler picks up the next page of its queue, or is finished
NextPage(w) ==
    IF w.pageQueue = <<>>
    THEN IdleWorker
    ELSE [IdleWorker EXCEPT !.pc = "resolve", !.entry = w.entry,
                            !.page = Head(w.pageQueue).ID,
                            !.labels = Head(w.pageQueue).Platforms,
                            !.pageQueue = Tail(w.pageQueue),
                            !.republish = w.republish]

\* Manager.PublishToAll: the labels mapped to platform names, unknown labels
\* dropped
MappedPlatforms(labels) ==
    SelectSeq([i \in 1..Len(labels) |-> mapPlatformName(labels[i])],
              LAMBDA n : n # "")

\* the orders in which `range m.publishers` can visit the registry
PublisherOrders ==
    {o \in [1..Cardinality(publishers) -> publishers] :
        \A p \in publishers : \E i \in DOMAIN o : o[i] = p}

\* PublishToAll without the fallback to the registry
TargetBatchesMappedOnly(labels) == {MappedPlatforms(labels)}

\* Manager.PublishToAll: the batches it can hand to PublishToPlatforms
TargetBatches(labels) ==
    IF Len(MappedPlatforms(labels)) = 0
    THEN PublisherOrders
    ELSE {MappedPlatforms(labels)}

\* ------------------------------------------------------------------ actions
Idle(wid) == workers[wid].pc = "idle"

\* the handler of a worker takes the step its pc stands at
Take(wid, b) ==
    /\ LET r == Step(workers[wid], jobs, platforms, b)
       IN  /\ workers' = [workers EXCEPT ![wid] = r.w]
           /\ jobs' = r.jobs
           /\ platforms' = r.platforms
    /\ UNCHANGED <<units, publishers, configs>>

\* Scheduler.runSync after the sync, and handleProcessPendingPages: the
\* handler enters ProcessPendingPages
StartProcessPending(wid) ==
    /\ Idle(wid)
    /\ workers' = [workers EXCEPT ![wid] = [IdleWorker EXCEPT !.pc = "pending",
                                                              !.entry = "pending"]]
    /\ UNCHANGED <<units, publishers, configs, platforms, jobs>>

\* ProcessPendingPages: the query for the Done pages and the needsPublishing
\* filter; the pages that pass are published one after the other.  pages is
\* the notion_pages table as the query finds it: SyncPages rewrites the
\* labels of a page row whenever they were edited in Notion
ProcessPendingPages(wid, pages) ==
    /\ workers[wid].pc = "pending"
    /\ \E order \in PageOrders, need \in [Pages -> BOOLEAN] :
        /\ \A p \in Pages : need[p] \in needsPublishing(jobs, platforms, p, pages[p])
        /\ workers' = [workers EXCEPT ![wid] =
              NextPage([workers[wid] EXCEPT !.pageQueue =
                  SelectSeq([i \in DOMAIN order |->
                                [ID |-> order[i], Platforms |-> pages[order[i]]]],
                            LAMBDA pg : need[pg.ID])])]
    /\ UNCHANGED <<units, publishers, configs, platforms, jobs>>

\* handlePublishPage -> PublisherService.PublishPage: PublishToAll of one
\* page, with the labels its row has by now
PublishPage(wid, p, labels) ==
    /\ Idle(wid)
    /\ workers' = [workers EXCEPT ![wid] =
          [IdleWorker EXCEPT !.pc = "resolve", !.entry = "publishAll",
                             !.page = p, !.labels = labels]]
    /\ UNCHANGED <<units, publishers, configs, platforms, jobs>>

\* Manager.PublishToAll: resolves the batch and enters PublishToPlatforms
PublishToAll(wid) ==
    /\ workers[wid].pc = "resolve"
    /\ \E batch \in TargetBatches(workers[wid].labels) :
        workers' = [workers EXCEPT ![wid] =
            [@ EXCEPT !.pc = "loop", !.batch = batch, !.idx = 1,
                      !.jobs0 = jobs, !.platforms0 = platforms]]
    /\ UNCHANGED <<units, publishers, configs, platforms, jobs>>

\* handlePublishPageToPlatform and handleSavePageToDraft ->
\* Manager.PublishSinglePlatform(page, platformName, isDraft)
PublishSinglePlatform(wid, p, platformName, isDraft) ==
    /\ Idle(wid)
    /\ workers' = [workers EXCEPT ![wid] =
          [IdleWorker EXCEPT !.pc = "single",
                             !.entry = IF isDraft THEN "draft" ELSE "single",
                             !.page = p, !.isDraft = isDraft,
                             !.batch = <<platformName>>, !.idx = 1,
                             !.jobs0 = jobs, !.platforms0 = platforms]]
    /\ UNCHANGED <<units, publishers, configs, platforms, jobs>>

\* handleRepublishJob: the job is saved as republish_requested with its error
\* cleared, then ProcessPendingPages runs
RepublishJob(wid, jobID) ==
    /\ Idle(wid)
    /\ jobID \in 1..Len(jobs)
    /\ jobs' = [jobs EXCEPT ![jobID].Status = "republish_requested", ![jobID].Error = ""]
    /\ workers' = [workers EXCEPT ![wid] =
          [IdleWorker EXCEPT !.pc = "pending", !.entry = "republish",
                             !.republish = [ID |-> jobID, row |-> jobs[jobID]]]]
    /\ UNCHANGED <<units, publishers, configs, platforms>>

\* the steps of PublishToPlatforms
LookupPublisher(wid) == workers[wid].pc = "loop" /\ Take(wid, "ok")

GetPlatformID(wid) == workers[wid].pc = "getid" /\ Take(wid, "ok")

CreatePlatform(wid) == workers[wid].pc = "mkplat" /\ Take(wid, "ok")

CheckCompleted(wid) == workers[wid].pc = "check" /\ Take(wid, "ok")

CreateJob(wid) == workers[wid].pc = "create" /\ Len(jobs) < MaxJobs /\ Take(wid, "ok")

\* the store refuses the insert of the in_progress job
CreateJobFails(wid) ==
    /\ workers[wid].pc = "create"
    /\ Len(jobs) < MaxJobs
    /\ LET r == createJobFails(workers[wid], jobs, platforms)
       IN  /\ workers' = [workers EXCEPT ![wid] = r.w]
           /\ jobs' = r.jobs
           /\ platforms' = r.platforms
    /\ UNCHANGED <<units, publishers, configs>>

\* Initialize reports a missing key exactly under a configuration that
\* lacks one ("invalid": enabled, a required key empty)
InitializePublisher(wid, b) ==
    /\ workers[wid].pc = "init"
    /\ (configs[Cur(workers[wid])] = "invalid") <=> (b = "configErr")
    /\ Take(wid, b)

PublishContent(wid) == workers[wid].pc = "publish" /\ Take(wid, "ok")

\* the steps of PublishSinglePlatform
PublishSingle(wid, b) == workers[wid].pc = "single" /\ Take(wid, b)

RecordJob(wid) == workers[wid].pc = "record" /\ Len(jobs) < MaxJobs /\ Take(wid, "ok")

\* PublishToPlatforms or PublishSinglePlatform returns to its caller, which
\* goes on with its next page or is finished
Return(wid) ==
    /\ workers[wid].pc = "ret"
    /\ workers' = [workers EXCEPT ![wid] = NextPage(@)]
    /\ UNCHANGED <<units, publishers, configs, platforms, jobs>>

\* Manager.SetPlatformConfig: m.configs[platformName] = config, between two
\* calls of the handlers
SetPlatformConfig(platformName, enabled) ==
    /\ \A wid \in Workers : Idle(wid)
    /\ configs' = [configs EXCEPT ![platformName] = IF enabled THEN "enabled" ELSE "disabled"]
    /\ configs' # configs
    /\ UNCHANGED <<units, publishers, platforms, jobs, workers>>

\* the process stops and is started again: every handler in flight is cut
\* off where it stands, the tables stay
Crash ==
    /\ \E wid \in Workers : ~Idle(wid)
    /\ workers' = [wid \in Workers |->
                    IF Idle(wid) THEN workers[wid]
                    ELSE [IdleWorker EXCEPT !.entry = "stopped"]]
    /\ UNCHANGED <<units, publishers, configs, platforms, jobs>>

\* ------------------------------------------------------ the three adapters
\* The adapters behind the Publisher interface, stage by stage.  What the
\* outside world answers during a call (the platform's API, git, the
\* converter) is the record e; what a call did is the list of the operations
\* and requests it went through.

Range(f) == {f[i] : i \in DOMAIN f}

\* the required keys of PublishConfig.Config, in the order they are checked
Required(name) ==
    CASE name = "al-folio" -> <<"repo_url", "branch", "workspace_dir">>
      [] name = "wechat-official" -> <<"app_id", "app_secret">>
      [] name = "substack" -> <<"domain", "cookie">>

ConfigKeys ==
    {"repo_url", "branch", "workspace_dir", "app_id", "app_secret",
     "domain", "cookie", "auto_publish"}

\* the configurations of a platform: one of its required keys may be empty,
\* auto_publish is absent, "true" or "false"
PublishConfigs(name) ==
    {[k \in ConfigKeys |->
        IF k = "auto_publish" THEN auto
        ELSE IF k \in Range(Required(name)) \ absent THEN "set" ELSE ""] :
      auto \in {"", "true", "false"},
      absent \in {{}} \cup {{k} : k \in Range(Required(name))}}

\* what the outside answers during one call: the converter, the image
\* processing or upload, the draft request or file write, the publish
\* request or commit and push, git status, the token exchange, the clone
Envs ==
    [transform : BOOLEAN, media : BOOLEAN, draft : BOOLEAN, publish : BOOLEAN,
     hasChanges : BOOLEAN, token : BOOLEAN, clone : BOOLEAN]

\* a call is answered only in what it asks: the answers that it does not
\* read are left at TRUE
Answers(read) ==
    {e \in Envs : \A k \in DOMAIN e : k \notin read => e[k]}

\* PublishContent{Title, Content, Resources, Metadata["draft_id"]}: the body
\* is its format, its text and the image URLs it refers to
PublishContents ==
    [Title : {"", "title"},
     Content : [format : {"markdown"}, text : {"text"}, images : {<<>>, <<"url">>}],
     Resources : {<<>>, <<"url">>},
     draft_id : {"", "7"}]

\* the content handlers hand to an adapter: convertPageToContent sets no
\* resources and no draft id
PageContents == {c \in PublishContents : c.Resources = <<>> /\ c.draft_id = ""}

Uploaded(urls) == [i \in 1..Len(urls) |-> "uploaded"]

\* PublishResult{Success, PublishID, Error, Metadata["publish_error"]}
PublishResult(success, publishID, error) ==
    [Success |-> success, PublishID |-> publishID, Error |-> error,
     publish_error |-> ""]

Failed(error) == PublishResult(FALSE, "", error)

\* a stage of PublishDirect as it went: its name, whether it returned
\* neither an error nor a result with Success = false, and the publish id of
\* the result it returned
Stage(name, r) ==
    [name |-> name,
     ok |-> r.err = "" /\ ("result" \in DOMAIN r => r.result.Success),
     PublishID |-> IF "result" \in DOMAIN r THEN r.result.PublishID ELSE ""]

\* the fields of a new adapter instance
NewPublisher == [accessToken |-> "", repository |-> "nil", domain |-> "", cookie |-> ""]

\* ValidateConfig of every adapter: the first required key that is empty
ValidateConfig(name, config) ==
    LET required == Required(name)
        missing == {i \in 1..Len(required) : config[required[i]] = ""}
    IN  IF missing = {} THEN ""
        ELSE "missing required config: " \o required[Min(missing)]

\* ---- wechat_official/publisher.go
\* the token exchange ahead of the validation
WeChatInitializeTokenFirst(p, config, e) ==
    IF ~e.token
    THEN [p |-> p, err |-> "failed to get access token",
          calls |-> <<"getAccessToken", "ValidateConfig">>]
    ELSE IF ValidateConfig("wechat-official", config) # ""
    THEN [p |-> [p EXCEPT !.accessToken = "token"],
          err |-> ValidateConfig("wechat-official", config),
          calls |-> <<"getAccessToken", "ValidateConfig">>]
    ELSE [p |-> [p EXCEPT !.accessToken = "token"], err |-> "",
          calls |-> <<"getAccessToken", "ValidateConfig">>]

WeChatInitialize(p, config, e) ==
    IF ValidateConfig("wechat-official", config) # ""
    THEN [p |-> p, err |-> ValidateConfig("wechat-official", config),
          calls |-> <<"ValidateConfig">>]
    ELSE IF ~e.token
    THEN [p |-> p, err |-> "failed to get access token",
          calls |-> <<"ValidateConfig", "getAccessToken">>]
    ELSE [p |-> [p EXCEPT !.accessToken = "token"], err |-> "",
          calls |-> <<"ValidateConfig", "getAccessToken">>]

WeChatTransformContent(content, e) ==
    IF ~e.transform
    THEN [content |-> content, err |-> "failed to transform content"]
    ELSE [content |-> [content EXCEPT !.Content.format = "html",
                                      !.Resources = content.Content.images],
          err |-> ""]

WeChatProcessResources(content, e) ==
    IF content.Resources = <<>>
    THEN [content |-> content, err |-> "", calls |-> <<>>]
    ELSE IF ~e.media
    THEN [content |-> content, err |-> "", calls |-> <<"uploadImage">>]
    ELSE [content |-> [content EXCEPT !.Resources = Uploaded(@),
                                      !.Content.images = Uploaded(@)],
          err |-> "", calls |-> <<"uploadImage">>]

WeChatSaveToDraft(content, e) ==
    IF content.Title = ""
    THEN [result |-> Failed("article title is required"), err |-> "", calls |-> <<>>]
    ELSE IF content.Content.text = ""
    THEN [result |-> Failed("article content is required"), err |-> "", calls |-> <<>>]
    ELSE IF ~e.draft
    THEN [result |-> Failed("failed to create WeChat draft"), err |-> "",
          calls |-> <<"addDraft">>]
    ELSE [result |-> PublishResult(TRUE, "media_id", ""), err |-> "",
          calls |-> <<"addDraft">>]

WeChatPublish(draftID, e) ==
    IF ~e.publish
    THEN [result |-> Failed("publish request failed"), err |-> "",
          calls |-> <<"publishDraft">>]
    ELSE [result |-> PublishResult(TRUE, "publish_id", ""), err |-> "",
          calls |-> <<"publishDraft">>]

WeChatPublishDirect(p, content, config, e) ==
    LET t == WeChatTransformContent(content, e)
        r == WeChatProcessResources(t.content, e)
        d == WeChatSaveToDraft(r.content, e)
        u == WeChatPublish(d.result.PublishID, e)
        c1 == <<"TransformContent">>
        c2 == c1 \o <<"ProcessResources">> \o r.calls
        c3 == c2 \o <<"SaveToDraft">> \o d.calls
        c4 == c3 \o <<"Publish">> \o u.calls
        s1 == <<Stage("TransformContent", t)>>
        s2 == s1 \o <<Stage("ProcessResources", r)>>
        s3 == s2 \o <<Stage("SaveToDraft", d)>>
        s4 == s3 \o <<Stage("Publish", u)>>
    IN  IF p.accessToken = ""
        THEN [result |-> Failed("WeChat publisher not initialized - access token missing"),
              err |-> "", calls |-> <<>>, stages |-> <<>>]
        ELSE IF t.err # ""
        THEN [result |-> Failed("content transformation failed"), err |-> "", calls |-> c1, stages |-> s1]
        ELSE IF r.err # ""
        THEN [result |-> Failed("media processing failed"), err |-> "", calls |-> c2, stages |-> s2]
        ELSE IF d.err # ""
        THEN [result |-> Failed("draft creation failed"), err |-> "", calls |-> c3, stages |-> s3]
        ELSE IF config["auto_publish"] = "true"
        THEN IF u.err # ""
             THEN [result |-> [d.result EXCEPT !.publish_error = u.err],
                   err |-> "", calls |-> c4, stages |-> s4]
             ELSE [result |-> u.result, err |-> "", calls |-> c4, stages |-> s4]
        ELSE [result |-> d.result, err |-> "", calls |-> c3, stages |-> s3]

\* ---- al_folio/transformer.go
AlFolioInitialize(p, config, e) ==
    IF ValidateConfig("al-folio", config) # ""
    THEN [p |-> p, err |-> ValidateConfig("al-folio", config),
          calls |-> <<"ValidateConfig">>]
    ELSE IF ~e.clone
    THEN [p |-> [p EXCEPT !.repository = "new"],
          err |-> "failed to initialize repository",
          calls |-> <<"ValidateConfig", "repository.Initialize">>]
    ELSE [p |-> [p EXCEPT !.repository = "cloned"], err |-> "",
          calls |-> <<"ValidateConfig", "repository.Initialize">>]

AlFolioTransformContent(content, e) ==
    IF ~e.transform
    THEN [content |-> content, err |-> "failed to transform content"]
    ELSE [content |-> [content EXCEPT !.Content.format = "jekyll"], err |-> ""]

\* p.repository.GetLocalPath() on the nil repository of an adapter that was
\* never initialized stops the goroutine
Panic == "panic: nil pointer dereference"

AlFolioProcessResources(p, content, e) ==
    IF p.repository = "nil"
    THEN [content |-> content, err |-> Panic, calls |-> <<>>]
    ELSE IF ~e.media
    THEN [content |-> content, err |-> "failed to process images", calls |-> <<>>]
    ELSE [content |-> [content EXCEPT !.Resources = Uploaded(content.Content.images),
                                      !.Content.images = Uploaded(@)],
          err |-> "", calls |-> <<>>]

writePostFile(content, filename, e) ==
    IF ~e.draft
    THEN [result |-> Failed("failed to create post file"), err |-> "",
          calls |-> <<"CreateFile">>]
    ELSE [result |-> PublishResult(TRUE, filename, ""), err |-> "",
          calls |-> <<"CreateFile">>]

AlFolioSaveToDraft(p, content, e) ==
    LET t == AlFolioTransformContent(content, e)
        r == AlFolioProcessResources(p, t.content, e)
        f == writePostFile(r.content, "draft_post.md", e)
    IN  IF t.err # ""
        THEN [result |-> Failed(t.err), err |-> "", calls |-> <<"TransformContent">>]
        ELSE IF r.err = Panic
        THEN [result |-> Failed(""), err |-> Panic,
              calls |-> <<"TransformContent", "ProcessResources">>]
        ELSE IF r.err # ""
        THEN [result |-> Failed(r.err), err |-> "",
              calls |-> <<"TransformContent", "ProcessResources">>]
        ELSE [result |-> f.result, err |-> f.err,
              calls |-> <<"TransformContent", "ProcessResources", "writePostFile">> \o f.calls]

AlFolioPublish(p, draftID, config, e) ==
    LET autoPublish == IF config["auto_publish"] # ""
                       THEN config["auto_publish"] = "true" ELSE TRUE
    IN  IF p.repository = "nil"
        THEN [result |-> Failed(""), err |-> Panic, calls |-> <<>>]
        ELSE IF ~e.hasChanges
        THEN [result |-> PublishResult(TRUE, draftID, ""), err |-> "",
              calls |-> <<"HasChanges">>]
        ELSE IF ~e.publish
        THEN [result |-> Failed("failed to commit changes"), err |-> "",
              calls |-> <<"HasChanges", "Add", "Commit">>]
        ELSE [result |-> PublishResult(TRUE, draftID, ""), err |-> "",
              calls |-> <<"HasChanges", "Add", "Commit">> \o
                        (IF autoPublish THEN <<"Push">> ELSE <<>>)]

AlFolioPublishDirect(p, content, config, e) ==
    LET t == AlFolioTransformContent(content, e)
        r == AlFolioProcessResources(p, t.content, e)
        f == writePostFile(r.content, "post.md", e)
        u == AlFolioPublish(p, f.result.PublishID, config, e)
        c1 == <<"TransformContent">>
        c2 == c1 \o <<"ProcessResources">> \o r.calls
        c3 == c2 \o <<"writePostFile">> \o f.calls
        c4 == c3 \o <<"Publish">> \o u.calls
        s1 == <<Stage("TransformContent", t)>>
        s2 == s1 \o <<Stage("ProcessResources", r)>>
        s3 == s2 \o <<Stage("writePostFile", f)>>
        s4 == s3 \o <<Stage("Publish", u)>>
    IN  IF t.err # ""
        THEN [result |-> Failed(t.err), err |-> "", calls |-> c1, stages |-> s1]
        ELSE IF r.err = Panic
        THEN [result |-> Failed(""), err |-> Panic, calls |-> c2, stages |-> s2]
        ELSE IF r.err # ""
        THEN [result |-> Failed(r.err), err |-> "", calls |-> c2, stages |-> s2]
        ELSE IF f.err # ""
        THEN [result |-> Failed(f.err), err |-> "", calls |-> c3, stages |-> s3]
        ELSE IF u.err # ""
        THEN [result |-> Failed(u.err), err |-> "", calls |-> c4, stages |-> s4]
        ELSE [result |-> u.result, err |-> "", calls |-> c4, stages |-> s4]

\* ---- the Substack adapter
SubstackInitialize(p, config, e) ==
    IF ValidateConfig("substack", config) # ""
    THEN [p |-> p, err |-> ValidateConfig("substack", config),
          calls |-> <<"ValidateConfig">>]
    ELSE [p |-> [p EXCEPT !.domain = config["domain"], !.cookie = config["cookie"]],
          err |-> "", calls |-> <<"ValidateConfig">>]

SubstackTransformContent(content, e) ==
    IF ~e.transform
    THEN [content |-> content, err |-> "failed to transform content"]
    ELSE [content |-> [content EXCEPT !.Content.format = "json",
                                      !.Resources = content.Content.images],
          err |-> ""]

\* the uploads without the test of the draft id
SubstackProcessResourcesUnchecked(content, e) ==
    IF content.Resources = <<>>
    THEN [content |-> content, err |-> "", calls |-> <<>>]
    ELSE IF ~e.media
    THEN [content |-> content, err |-> "",
          calls |-> [i \in 1..Len(content.Resources) |-> "uploadImage"]]
    ELSE [content |-> [content EXCEPT !.Resources = Uploaded(@),
                                      !.Content.images = Uploaded(@)],
          err |-> "",
          calls |-> [i \in 1..Len(content.Resources) |-> "uploadImage"]]

\* an image whose upload fails is skipped, the others go on
SubstackProcessResources(content, e) ==
    IF content.Resources = <<>>
    THEN [content |-> content, err |-> "", calls |-> <<>>]
    ELSE IF content.draft_id = ""
    THEN [content |-> content,
          err |-> "draft_id not found in metadata - needed for image uploads",
          calls |-> <<>>]
    ELSE IF ~e.media
    THEN [content |-> content, err |-> "",
          calls |-> [i \in 1..Len(content.Resources) |-> "uploadImage"]]
    ELSE [content |-> [content EXCEPT !.Resources = Uploaded(@),
                                      !.Content.images = Uploaded(@)],
          err |-> "",
          calls |-> [i \in 1..Len(content.Resources) |-> "uploadImage"]]

SubstackSaveToDraft(content, e) ==
    LET t == SubstackTransformContent(content, e)
        r == SubstackProcessResources([t.content EXCEPT !.draft_id = "7"], e)
        c1 == <<"TransformContent">>
        c2 == c1 \o <<"createDraft">>
        c3 == c2 \o <<"ProcessResources">> \o r.calls
    IN  IF t.err # ""
        THEN [result |-> Failed(t.err), err |-> "", calls |-> c1]
        ELSE IF ~e.draft
        THEN [result |-> Failed("failed to create Substack draft"), err |-> "",
              calls |-> c2]
        ELSE IF r.err # ""
        THEN [result |-> Failed("failed to process resources"), err |-> "",
              calls |-> c3]
        ELSE [result |-> PublishResult(TRUE, "7", ""), err |-> "", calls |-> c3]

\* publishing is manual on Substack: nothing is requested
SubstackPublish(draftID, e) ==
    [result |-> PublishResult(TRUE, draftID, ""), err |-> "", calls |-> <<>>]

SubstackPublishDirect(p, content, config, e) ==
    LET d == SubstackSaveToDraft(content, e)
        u == SubstackPublish(d.result.PublishID, e)
        c1 == <<"SaveToDraft">> \o d.calls
        c2 == c1 \o <<"Publish">> \o u.calls
        s1 == <<Stage("SaveToDraft", d)>>
        s2 == s1 \o <<Stage("Publish", u)>>
    IN  IF d.err # ""
        THEN [result |-> Failed(d.err), err |-> "", calls |-> c1, stages |-> s1]
        ELSE IF ~d.result.Success
        THEN [result |-> d.result, err |-> "", calls |-> c1, stages |-> s1]
        ELSE IF config["auto_publish"] = "true"
        THEN IF u.err # ""
             THEN [result |-> [d.result EXCEPT !.publish_error = u.err],
                   err |-> "", calls |-> c2, stages |-> s2]
             ELSE [result |-> u.result, err |-> "", calls |-> c2, stages |-> s2]
        ELSE [result |-> d.result, err |-> "", calls |-> c1, stages |-> s1]

\* ---- one adapter instance and the calls made on it
NoContent ==
    [Title |-> "", Content |-> [format |-> "markdown", text |-> "", images |-> <<>>],
     Resources |-> <<>>, draft_id |-> ""]

\* the instance, its configuration, and the last call: the operation, the
\* content it was given and the content it left, what it returned and what
\* it went through
NewAdapter(name, config) ==
    [name |-> name, config |-> config, p |-> NewPublisher, op |-> "New",
     given |-> NoContent, content |-> NoContent, result |-> Failed(""),
     err |-> "", calls |-> <<>>, stages |-> <<>>, before |-> NewPublisher,
     env |-> <<>>]

NoAdapter == NewAdapter("none", [k \in ConfigKeys |-> ""])

\* what the outside can answer to an instance: a Substack adapter whose
\* domain is empty sends its requests to a URL without a host, and the HTTP
\* client refuses each of them
Answerable(name, p, e) ==
    (name = "substack" /\ p.domain = "") =>
        \A k \in DOMAIN e \cap {"draft", "media"} : ~e[k]

Call(op, given, content, r, e) ==
    [adapter EXCEPT !.op = op, !.given = given, !.content = content,
                    !.result = r.result, !.err = r.err, !.calls = r.calls,
                    !.stages = IF "stages" \in DOMAIN r THEN r.stages ELSE <<>>,
                    !.before = adapter.p, !.env = e]

\* Initialize with the configuration the platform has at the time; the
\* calls that follow are given the same configuration
AdapterInitialize ==
    /\ adapter.name # "none"
    /\ \E e \in Answers({"token", "clone"}), config \in PublishConfigs(adapter.name) :
        LET r == CASE adapter.name = "wechat-official" ->
                        WeChatInitialize(adapter.p, config, e)
                   [] adapter.name = "al-folio" ->
                        AlFolioInitialize(adapter.p, config, e)
                   [] adapter.name = "substack" ->
                        SubstackInitialize(adapter.p, config, e)
        IN  adapter' = [adapter EXCEPT !.op = "Initialize", !.given = NoContent,
                            !.config = config,
                            !.content = NoContent, !.result = Failed(""),
                            !.err = r.err, !.calls = r.calls, !.stages = <<>>,
                            !.p = r.p,
                            !.before = adapter.p, !.env = e]
    /\ UNCHANGED notAdapter

AdapterPublishDirect ==
    /\ adapter.name # "none"
    /\ \E e \in Answers({"transform", "media", "draft", "publish", "hasChanges"}),
          content \in PageContents :
        /\ Answerable(adapter.name, adapter.p, e)
        /\ LET r == CASE adapter.name = "wechat-official" ->
                           WeChatPublishDirect(adapter.p, content, adapter.config, e)
                      [] adapter.name = "al-folio" ->
                           AlFolioPublishDirect(adapter.p, content, adapter.config, e)
                      [] adapter.name = "substack" ->
                           SubstackPublishDirect(adapter.p, content, adapter.config, e)
           IN  adapter' = Call("PublishDirect", content, content, r, e)
    /\ UNCHANGED notAdapter

AdapterProcessResources ==
    /\ adapter.name # "none"
    /\ \E e \in Answers({"media"}), content \in PublishContents :
        /\ Answerable(adapter.name, adapter.p, e)
        /\ LET r == CASE adapter.name = "wechat-official" ->
                           WeChatProcessResources(content, e)
                      [] adapter.name = "al-folio" ->
                           AlFolioProcessResources(adapter.p, content, e)
                      [] adapter.name = "substack" ->
                           SubstackProcessResources(content, e)
           IN  adapter' = Call("ProcessResources", content, r.content,
                               [result |-> Failed(""), err |-> r.err, calls |-> r.calls], e)
    /\ UNCHANGED notAdapter

AdapterSaveToDraft ==
    /\ adapter.name # "none"
    /\ \E e \in Answers({"transform", "media", "draft"}), content \in PageContents :
        /\ Answerable(adapter.name, adapter.p, e)
        /\ LET r == CASE adapter.name = "wechat-official" ->
                           WeChatSaveToDraft(content, e)
                      [] adapter.name = "al-folio" ->
                           AlFolioSaveToDraft(adapter.p, content, e)
                      [] adapter.name = "substack" ->
                           SubstackSaveToDraft(content, e)
           IN  adapter' = Call("SaveToDraft", content, content, r, e)
    /\ UNCHANGED notAdapter

\* ---------------------------------------------------------- the converters
\* A Notion block as the converters read it: block["type"] ("" when it is
\* not a string), whether block[type] is a map, and the text its rich_text
\* yields.
MaxBlocks == 4

Blocks ==
    {[type |-> "paragraph", payload |-> TRUE, text |-> "t"],
     [type |-> "paragraph", payload |-> TRUE, text |-> ""],
     [type |-> "numbered_list_item", payload |-> TRUE, text |-> "t"],
     [type |-> "numbered_list_item", payload |-> TRUE, text |-> ""],
     [type |-> "numbered_list_item", payload |-> FALSE, text |-> ""],
     [type |-> "bulleted_list_item", payload |-> TRUE, text |-> "t"],
     [type |-> "divider", payload |-> TRUE, text |-> ""],
     [type |-> "column_list", payload |-> TRUE, text |-> ""],
     [type |-> "", payload |-> FALSE, text |-> ""]}

BlockLists == UNION {[1..n -> Blocks] : n \in 0..MaxBlocks}

\* a piece of output: the index of the block it renders, the number it
\* shows (0 for none) and its text
Piece(i, number, text) == [src |-> i, number |-> number, text |-> text]

\* what a block converter returns
Converted(content, skip, isNumberedList, counter) ==
    [content |-> content, skip |-> skip, isNumberedList |-> isNumberedList,
     counter |-> counter]

\* ---- al_folio/convertor.go
convertBlockToMarkdownWithCounter(block, i, counter) ==
    IF block.type = "" \/ ~block.payload
    THEN Converted(Piece(i, 0, ""), TRUE, FALSE, counter)
    ELSE CASE block.type = "paragraph" ->
                Converted(Piece(i, 0, block.text), FALSE, FALSE, counter)
           [] block.type = "bulleted_list_item" ->
                IF block.text # ""
                THEN Converted(Piece(i, 0, "- " \o block.text), FALSE, FALSE, counter)
                ELSE Converted(Piece(i, 0, ""), FALSE, FALSE, counter)
           [] block.type = "numbered_list_item" ->
                IF block.text # ""
                THEN Converted(Piece(i, counter + 1, block.text), FALSE, TRUE, counter + 1)
                ELSE Converted(Piece(i, 0, ""), FALSE, FALSE, counter)
           [] block.type = "divider" ->
                Converted(Piece(i, 0, "---"), FALSE, FALSE, counter)
           [] block.type = "column_list" ->
                Converted(Piece(i, 0, ""), FALSE, FALSE, counter)
           [] OTHER ->
                Converted(Piece(i, 0, block.text), FALSE, FALSE, counter)

RECURSIVE MarkdownFrom(_, _, _, _)
MarkdownFrom(blocks, i, numberedListCounter, content) ==
    IF i > Len(blocks) THEN content
    ELSE LET r == convertBlockToMarkdownWithCounter(blocks[i], i, numberedListCounter)
         IN  IF r.skip
             THEN MarkdownFrom(blocks, i + 1, r.counter, content)
             ELSE MarkdownFrom(blocks, i + 1,
                               IF r.isNumberedList THEN r.counter ELSE 0,
                               Append(content, r.content))

convertNotionBlocksToMarkdown(blocks) == MarkdownFrom(blocks, 1, 0, <<>>)

\* ---- the WeChat converter
convertBlockToWeChatHTMLWithCounter(block, i, counter) ==
    IF block.type = "" \/ ~block.payload
    THEN Converted(Piece(i, 0, ""), TRUE, FALSE, counter)
    ELSE CASE block.type = "numbered_list_item" ->
                IF block.text # ""
                THEN Converted(Piece(i, counter + 1, block.text), FALSE, TRUE, counter + 1)
                ELSE Converted(Piece(i, 0, ""), FALSE, FALSE, counter)
           [] block.type = "divider" ->
                Converted(Piece(i, 0, "<hr>"), FALSE, FALSE, counter)
           [] block.type = "column_list" ->
                Converted(Piece(i, 0, ""), FALSE, FALSE, counter)
           [] OTHER ->
                Converted(Piece(i, 0, block.text), FALSE, FALSE, counter)

RECURSIVE WeChatHTMLFrom(_, _, _, _)
WeChatHTMLFrom(blocks, i, numberedListCounter, content) ==
    IF i > Len(blocks) THEN content
    ELSE LET r == convertBlockToWeChatHTMLWithCounter(blocks[i], i, numberedListCounter)
         IN  IF r.skip
             THEN WeChatHTMLFrom(blocks, i + 1, r.counter, content)
             ELSE WeChatHTMLFrom(blocks, i + 1,
                                 IF r.isNumberedList THEN r.counter ELSE 0,
                                 IF r.content.text # ""
                                 THEN Append(content, r.content) ELSE content)

convertNotionBlocksToWeChatHTML(blocks) == WeChatHTMLFrom(blocks, 1, 0, <<>>)

\* ---- the Substack converter
\* a node of the document: its type, the block it renders, its children
SubstackNode(type, i, content) == [Type |-> type, src |-> i, Content |-> content]

convertBlockToSubstack(block, i, counter) ==
    LET skipped == [node |-> SubstackNode("", i, <<>>), skip |-> TRUE,
                    isNumberedList |-> FALSE, isBulletList |-> FALSE,
                    counter |-> counter]
    IN  IF block.type = "" \/ ~block.payload THEN skipped
        ELSE CASE block.type = "bulleted_list_item" ->
                    IF block.text # ""
                    THEN [node |-> SubstackNode("list_item", i, <<>>), skip |-> FALSE,
                          isNumberedList |-> FALSE, isBulletList |-> TRUE,
                          counter |-> counter]
                    ELSE skipped
               [] block.type = "numbered_list_item" ->
                    IF block.text # ""
                    THEN [node |-> SubstackNode("list_item", i, <<>>), skip |-> FALSE,
                          isNumberedList |-> TRUE, isBulletList |-> FALSE,
                          counter |-> counter + 1]
                    ELSE skipped
               [] block.type = "divider" ->
                    [node |-> SubstackNode("horizontal_rule", i, <<>>), skip |-> FALSE,
                     isNumberedList |-> FALSE, isBulletList |-> FALSE,
                     counter |-> counter]
               [] block.type = "column_list" -> skipped
               [] OTHER ->
                    IF block.text # ""
                    THEN [node |-> SubstackNode("paragraph", i, <<>>), skip |-> FALSE,
                          isNumberedList |-> FALSE, isBulletList |-> FALSE,
                          counter |-> counter]
                    ELSE skipped

\* the loop of convertNotionBlocksToSubstack: a list is closed when the
\* block after one of its items is of another type; a list still open when
\* the loop ends is not part of the document
RECURSIVE SubstackFrom(_, _, _, _, _, _)
SubstackFrom(blocks, i, numberedListCounter, nodes, currentBulletList, currentOrderedList) ==
    IF i > Len(blocks) THEN nodes
    ELSE LET r == convertBlockToSubstack(blocks[i], i, numberedListCounter)
             nextBlockType == IF i + 1 <= Len(blocks) THEN blocks[i + 1].type ELSE ""
             bullets == Append(currentBulletList, r.node)
             ordered == Append(currentOrderedList, r.node)
         IN  IF r.skip
             THEN SubstackFrom(blocks, i + 1, r.counter, nodes,
                               currentBulletList, currentOrderedList)
             ELSE IF r.isBulletList
             THEN IF i + 1 > Len(blocks) \/ nextBlockType # "bulleted_list_item"
                  THEN SubstackFrom(blocks, i + 1, r.counter,
                                    Append(nodes, SubstackNode("bullet_list", i, bullets)),
                                    <<>>, currentOrderedList)
                  ELSE SubstackFrom(blocks, i + 1, r.counter, nodes,
                                    bullets, currentOrderedList)
             ELSE IF r.isNumberedList
             THEN IF i + 1 > Len(blocks) \/ nextBlockType # "numbered_list_item"
                  THEN SubstackFrom(blocks, i + 1, 0,
                                    Append(nodes, SubstackNode("ordered_list", i, ordered)),
                                    currentBulletList, <<>>)
                  ELSE SubstackFrom(blocks, i + 1, r.counter, nodes,
                                    currentBulletList, ordered)
             ELSE SubstackFrom(blocks, i + 1, 0,
                               IF r.node.Type # "" THEN Append(nodes, r.node) ELSE nodes,
                               currentBulletList, currentOrderedList)

convertNotionBlocksToSubstack(blocks) == SubstackFrom(blocks, 1, 0, <<>>, <<>>, <<>>)

\* ---- one conversion
NoRender == [blocks |-> <<>>, converter |-> "none", out |-> <<>>]

ConvertToMarkdown ==
    /\ render.converter = "new"
    /\ render' = [render EXCEPT !.converter = "al-folio",
                                !.out = convertNotionBlocksToMarkdown(render.blocks)]
    /\ UNCHANGED notRender

ConvertToWeChatHTML ==
    /\ render.converter = "new"
    /\ render' = [render EXCEPT !.converter = "wechat-official",
                                !.out = convertNotionBlocksToWeChatHTML(render.blocks)]
    /\ UNCHANGED notRender

ConvertToSubstack ==
    /\ render.converter = "new"
    /\ render' = [render EXCEPT !.converter = "substack",
                                !.out = convertNotionBlocksToSubstack(render.blocks)]
    /\ UNCHANGED notRender

\* ------------------------------------------------------ rich-text formatting
\* A rich-text span as the formatters read it: its plain text, whether it
\* has an annotations map, the annotations that are true in it, and href
\* ("" for none).
Annotations == {"bold", "italic", "code", "strikethrough", "underline"}

PlainTexts == {"t", "a<b"}

Spans ==
    {[plain_text |-> t, annotations |-> TRUE, set |-> a, href |-> h] :
        t \in PlainTexts, a \in SUBSET Annotations, h \in {"", "u"}} \cup
    {[plain_text |-> t, annotations |-> FALSE, set |-> {}, href |-> h] :
        t \in PlainTexts, h \in {"", "u"}}

\* a formatted text and, beside it, what was applied to it, innermost first
Formatted(text, applied) == [text |-> text, applied |-> applied]

Wrap(open, f, close, what) ==
    Formatted(open \o f.text \o close, Append(f.applied, what))

\* al_folio/convertor.go; a TLA+ string cannot hold the backtick, which is
\* written as an apostrophe
Backtick == "'"

applyRichTextFormatting(text, rtMap) ==
    IF ~rtMap.annotations THEN Formatted(text, <<>>)
    ELSE LET t0 == Formatted(text, <<>>)
             t1 == IF "bold" \in rtMap.set THEN Wrap("**", t0, "**", "bold") ELSE t0
             t2 == IF "italic" \in rtMap.set THEN Wrap("*", t1, "*", "italic") ELSE t1
             t3 == IF "code" \in rtMap.set THEN Wrap(Backtick, t2, Backtick, "code") ELSE t2
             t4 == IF "strikethrough" \in rtMap.set
                   THEN Wrap("~~", t3, "~~", "strikethrough") ELSE t3
             t5 == IF "underline" \in rtMap.set THEN Wrap("*", t4, "*", "underline") ELSE t4
         IN  IF rtMap.href # ""
             THEN Wrap("[", t5, "](" \o rtMap.href \o ")", "link") ELSE t5

\* the WeChat converter; the style attributes of the tags and the quotes
\* around the href are left out
\* escapeHTML on the texts of PlainTexts
escapeHTML(text) == IF text = "a<b" THEN "a&lt;b" ELSE text

applyWeChatHTMLFormatting(text, rtMap) ==
    LET anchor == "<a href=" \o rtMap.href \o ">"
    IN  IF ~rtMap.annotations
        THEN IF rtMap.href # ""
             THEN Wrap(anchor, Formatted(escapeHTML(text), <<>>), "</a>", "link")
             ELSE Formatted(escapeHTML(text), <<>>)
        ELSE LET t0 == Formatted(escapeHTML(text), <<>>)
                 t1 == IF "bold" \in rtMap.set
                       THEN Wrap("<strong>", t0, "</strong>", "bold") ELSE t0
                 t2 == IF "italic" \in rtMap.set
                       THEN Wrap("<em>", t1, "</em>", "italic") ELSE t1
                 t3 == IF "code" \in rtMap.set
                       THEN Wrap("<code>", t2, "</code>", "code") ELSE t2
                 t4 == IF "strikethrough" \in rtMap.set
                       THEN Wrap("<s>", t3, "</s>", "strikethrough") ELSE t3
                 t5 == IF "underline" \in rtMap.set
                       THEN Wrap("<u>", t4, "</u>", "underline") ELSE t4
             IN  IF rtMap.href # "" THEN Wrap(anchor, t5, "</a>", "link") ELSE t5

\* the Substack converter: a text node and its marks
Mark(node, type, what) ==
    [node EXCEPT !.Marks = Append(node.Marks, type),
                 !.applied = Append(node.applied, what)]

applySubstackFormatting(text, rtMap) ==
    LET n0 == [Type |-> "text", Text |-> text, Marks |-> <<>>, applied |-> <<>>]
        n1 == IF rtMap.annotations /\ "bold" \in rtMap.set
              THEN Mark(n0, "strong", "bold") ELSE n0
        n2 == IF rtMap.annotations /\ "italic" \in rtMap.set
              THEN Mark(n1, "em", "italic") ELSE n1
        n3 == IF rtMap.annotations /\ "code" \in rtMap.set
              THEN Mark(n2, "code", "code") ELSE n2
        n4 == IF rtMap.annotations /\ "strikethrough" \in rtMap.set
              THEN Mark(n3, "strikethrough", "strikethrough") ELSE n3
    IN  IF rtMap.href # "" THEN Mark(n4, "link", "link") ELSE n4

\* ---- one span formatted
NoSpan == [rtMap |-> [plain_text |-> "", annotations |-> FALSE, set |-> {}, href |-> ""],
           converter |-> "none", out |-> Formatted("", <<>>)]

FormatMarkdown ==
    /\ span.converter = "new"
    /\ span' = [span EXCEPT !.converter = "al-folio",
                            !.out = applyRichTextFormatting(span.rtMap.plain_text, span.rtMap)]
    /\ UNCHANGED notSpan

FormatWeChatHTML ==
    /\ span.converter = "new"
    /\ span' = [span EXCEPT !.converter = "wechat-official",
                            !.out = applyWeChatHTMLFormatting(span.rtMap.plain_text, span.rtMap)]
    /\ UNCHANGED notSpan

FormatSubstack ==
    /\ span.converter = "new"
    /\ span' = [span EXCEPT !.converter = "substack",
                            !.out = applySubstackFormatting(span.rtMap.plain_text, span.rtMap)]
    /\ UNCHANGED notSpan

\* ---------------------------------------------------------- image processing
\* An image URL: its host ("s3" for prod-files-secure.s3.us-west-2.amazonaws.com),
\* the file it names and its query string ("" for none).  The path of a
\* downloaded image is written in the same shape, with host "local".
MaxImages == 5
MaxVariants == 3
Threshold == 200

ImageURL(host, asset, query) == [host |-> host, asset |-> asset, query |-> query]
NoURL == ImageURL("", "", "")

normalizeImageURL(url) == [url EXCEPT !.query = ""]

\* an image in a content: its URL, the format it is written in and the
\* index of its first character
Occurrence(url, format, pos) == [url |-> url, format |-> format, pos |-> pos]

\* what stands at the place of an occurrence while the content is rewritten:
\* the image itself ("markdown" or "liquid"), an embed ("html": its columns
\* and the paths of its includes) or nothing ("blank")
Node(kind, url, columns, includes) ==
    [kind |-> kind, url |-> url, columns |-> columns, includes |-> includes]
Blank == Node("blank", NoURL, 0, <<>>)

NodesOf(content) ==
    [i \in DOMAIN content |-> Node(content[i].format, content[i].url, 0, <<>>)]

\* imageMap[url], "" when absent
NoPath == ImageURL("", "", "")
Lookup(imageMap, url) == IF url \in DOMAIN imageMap THEN imageMap[url] ELSE NoPath

deduplicateURLs(urls) ==
    LET RECURSIVE from(_, _)
        from(k, result) ==
            IF k > Len(urls) THEN result
            ELSE IF urls[k] \in Range(result) THEN from(k + 1, result)
            ELSE from(k + 1, Append(result, urls[k]))
    IN  from(1, <<>>)

\* extractImageURLs: the markdown images first, then the liquid includes
extractImageURLs(content) ==
    LET of(format) == SelectSeq(content, LAMBDA o : o.format = format)
        all == of("markdown") \o of("liquid")
    IN  deduplicateURLs([i \in DOMAIN all |-> all[i].url])

\* the loop of ProcessContent over imageURLs: the counter grows with every
\* attempt, a failed download is passed over
RECURSIVE downloadAll(_, _, _, _)
downloadAll(imageURLs, failed, k, acc) ==
    IF k > Len(imageURLs) THEN acc
    ELSE LET url == imageURLs[k]
             path == ImageURL("local", "img", ToString(k))
             attempted == [acc EXCEPT !.downloads = Append(@, url)]
         IN  IF url \in failed
             THEN downloadAll(imageURLs, failed, k + 1, attempted)
             ELSE downloadAll(imageURLs, failed, k + 1,
                    [attempted EXCEPT
                        !.resources = Append(@, [URL |-> path, original_url |-> url]),
                        !.imageMap = (normalizeImageURL(url) :> path) @@
                                     (url :> path) @@ @])

\* imagePositions[url]: the markdown matches, then the liquid matches
imagePositions(content, url) ==
    LET of(format) == SelectSeq(content, LAMBDA o : o.format = format /\ o.url = url)
        all == of("markdown") \o of("liquid")
    IN  [i \in DOMAIN all |-> all[i].pos]

\* sortURLsByPosition: by the first recorded position, smallest first
sortURLsByPosition(urls, content) ==
    LET placed == SelectSeq(urls, LAMBDA u : imagePositions(content, u) # <<>>)
        pos(u) == imagePositions(content, u)[1]
        RECURSIVE sorted(_)
        sorted(rest) ==
            IF rest = {} THEN <<>>
            ELSE LET first == CHOOSE u \in rest : \A v \in rest : pos(u) <= pos(v)
                 IN  <<first>> \o sorted(rest \ {first})
    IN  sorted(Range(placed))

groupConsecutiveImages(content, imageURLs) ==
    LET sortedURLs == sortURLsByPosition(imageURLs, content)
        RECURSIVE from(_, _, _, _)
        from(k, groups, currentGroup, lastPos) ==
            IF k > Len(sortedURLs)
            THEN IF Len(currentGroup) > 0 THEN Append(groups, currentGroup) ELSE groups
            ELSE LET url == sortedURLs[k]
                     pos == imagePositions(content, url)[1]
                 IN  IF lastPos >= 0 /\ pos - lastPos > Threshold
                     THEN from(k + 1,
                               IF Len(currentGroup) > 0
                               THEN Append(groups, currentGroup) ELSE groups,
                               <<url>>, pos)
                     ELSE from(k + 1, groups, Append(currentGroup, url), pos)
        groups == from(1, <<>>, <<>>, -1)
    IN  IF Len(groups) = 0 THEN [i \in DOMAIN imageURLs |-> <<imageURLs[i]>>]
        ELSE groups

determineLayout(imageCount) ==
    CASE imageCount = 1 -> "SingleImage"
      [] imageCount = 2 -> "TwoColumnRow"
      [] imageCount = 3 -> "ThreeColumnRow"
      [] imageCount = 4 -> "FourColumnRow"
      [] OTHER -> "TwoColumnRow"

\* the path an embed names for a URL: the new path, that of the normalized
\* URL, or the URL itself
pathOf(imageMap, url) ==
    IF Lookup(imageMap, url) # NoPath THEN Lookup(imageMap, url)
    ELSE IF Lookup(imageMap, normalizeImageURL(url)) # NoPath
    THEN Lookup(imageMap, normalizeImageURL(url))
    ELSE url

generateAlFolioImageHTML(urls, imageMap, layout) ==
    LET row(n) == Node("html", NoURL, n, [i \in 1..n |-> pathOf(imageMap, urls[i])])
    IN  IF layout = "SingleImage" /\ Len(urls) >= 1 THEN row(1)
        ELSE IF layout = "TwoColumnRow" /\ Len(urls) >= 2 THEN row(2)
        ELSE IF layout = "ThreeColumnRow" /\ Len(urls) >= 3 THEN row(3)
        ELSE IF Len(urls) > 0 THEN row(1)
        ELSE Blank

\* the two ReplaceAllString of replaceImageURL: the markdown images of the
\* target, then the liquid includes (those of embeds written before too)
replaceImageURL(nodes, targetURL, replacement) ==
    LET matches(path) ==
            IF normalizeImageURL(targetURL).host = "s3"
            THEN path.host = "s3" /\ path.asset = targetURL.asset
            ELSE path = targetURL
        markdown(n) == IF n.kind = "markdown" /\ n.url = targetURL THEN replacement ELSE n
        RECURSIVE spliced(_)
        spliced(includes) ==
            IF includes = <<>> THEN <<>>
            ELSE (IF matches(Head(includes)) THEN replacement.includes
                  ELSE <<Head(includes)>>) \o spliced(Tail(includes))
        liquid(n) ==
            IF n.kind = "liquid" /\ matches(n.url) THEN replacement
            ELSE IF n.kind = "html" THEN [n EXCEPT !.includes = spliced(@)]
            ELSE n
    IN  [i \in DOMAIN nodes |-> liquid(markdown(nodes[i]))]

replaceImageGroup(nodes, group, alFolioHTML) ==
    LET RECURSIVE from(_, _)
        from(i, c) ==
            IF i > Len(group) THEN c
            ELSE LET replacement == IF i = 1 THEN alFolioHTML ELSE Blank
                     c1 == replaceImageURL(c, group[i], replacement)
                 IN  from(i + 1,
                          replaceImageURL(c1, normalizeImageURL(group[i]), replacement))
    IN  from(1, nodes)

replaceImagesInContent(nodes, content, imageMap, imageURLs) ==
    LET imageGroups == groupConsecutiveImages(content, imageURLs)
        RECURSIVE from(_, _)
        from(g, c) ==
            IF g > Len(imageGroups) THEN c
            ELSE LET layout == determineLayout(Len(imageGroups[g]))
                     alFolioHTML == generateAlFolioImageHTML(imageGroups[g], imageMap, layout)
                 IN  from(g + 1, replaceImageGroup(c, imageGroups[g], alFolioHTML))
    IN  from(1, nodes)

\* ProcessContent, with beside its results what it downloaded and grouped
ProcessContent(content, failed) ==
    LET imageURLs == extractImageURLs(content)
        got == downloadAll(imageURLs, failed, 1,
                           [downloads |-> <<>>, resources |-> <<>>, imageMap |-> <<>>])
        groups == groupConsecutiveImages(content, imageURLs)
    IN  [content |-> replaceImagesInContent(NodesOf(content), content,
                                            got.imageMap, imageURLs),
         resources |-> got.resources,
         err |-> "",
         downloads |-> got.downloads,
         imageMap |-> got.imageMap,
         groups |-> groups,
         htmls |-> [g \in DOMAIN groups |->
                      generateAlFolioImageHTML(groups[g], got.imageMap,
                                               determineLayout(Len(groups[g])))]]

\* what a processor hands back
NoOutput == [content |-> <<>>, resources |-> <<>>, err |-> "", downloads |-> <<>>,
             imageMap |-> <<>>, groups |-> <<>>, htmls |-> <<>>]

\* ---- WeChat and Substack: one resource for every image, in order
\* strings.ReplaceAll(content, old, new) on the URLs of a content: a URL
\* holds old when it is old or old followed by a query string, and what
\* follows old stays behind new
ReplaceAll(nodes, old, new) ==
    LET holds(url) == /\ url.host = old.host
                      /\ url.asset = old.asset
                      /\ (old.query = "" \/ old.query = url.query)
        replaced(url) == IF old.query = url.query THEN new
                         ELSE [new EXCEPT !.query = url.query]
    IN  [i \in DOMAIN nodes |->
            IF holds(nodes[i].url) THEN [nodes[i] EXCEPT !.url = replaced(@)]
            ELSE nodes[i]]

\* WeChatOfficialPublisher.TransformContent: ExtractImages and the resources
WeChatResources(content) ==
    [i \in DOMAIN content |-> [URL |-> content[i].url, original_url |-> content[i].url,
                               uploaded |-> NoPath]]

\* WeChatMediaProcessor.ProcessResources: a resource that fails is kept as
\* it was
WeChatMediaProcessResources(resources, failed) ==
    [k \in DOMAIN resources |->
        IF resources[k].URL \in failed THEN resources[k]
        ELSE [resources[k] EXCEPT !.uploaded = ImageURL("wechat", ToString(k), "")]]

RECURSIVE WeChatUpdateImageReferences(_, _)
WeChatUpdateImageReferences(nodes, resources) ==
    IF resources = <<>> THEN nodes
    ELSE LET resource == Head(resources)
         IN  WeChatUpdateImageReferences(
                 IF resource.uploaded # NoPath /\ resource.URL # NoURL
                 THEN ReplaceAll(nodes, resource.URL, resource.uploaded)
                 ELSE nodes,
                 Tail(resources))

\* WeChatOfficialPublisher.ProcessResources on the images of a content
WeChatProcessImages(content, failed) ==
    LET resources == WeChatResources(content)
        processedResources == WeChatMediaProcessResources(resources, failed)
        nodes == [i \in DOMAIN content |-> Node("img", content[i].url, 0, <<>>)]
    IN  IF Len(resources) = 0
        THEN [NoOutput EXCEPT !.content = nodes]
        ELSE [NoOutput EXCEPT
                !.content = WeChatUpdateImageReferences(nodes, processedResources),
                !.resources = processedResources,
                !.downloads = [k \in DOMAIN resources |-> resources[k].URL]]

\* SubstackPublisher.ProcessResources on the images of a content that has
\* its draft id: an upload that fails is skipped
SubstackUploads(resources, failed) ==
    [k \in DOMAIN resources |->
        IF resources[k].URL \in failed THEN resources[k]
        ELSE [URL |-> ImageURL("substack", ToString(k), ""),
              original_url |-> resources[k].URL,
              uploaded |-> ImageURL("substack", ToString(k), "")]]

RECURSIVE SubstackUpdateImageReferences(_, _)
SubstackUpdateImageReferences(nodes, resources) ==
    IF resources = <<>> THEN nodes
    ELSE LET resource == Head(resources)
         IN  SubstackUpdateImageReferences(
                 IF resource.uploaded # NoPath
                 THEN ReplaceAll(nodes, resource.original_url, resource.uploaded)
                 ELSE nodes,
                 Tail(resources))

SubstackProcessImages(content, failed) ==
    LET resources == WeChatResources(content)
        uploaded == SubstackUploads(resources, failed)
        nodes == [i \in DOMAIN content |-> Node("img", content[i].url, 0, <<>>)]
    IN  IF Len(resources) = 0
        THEN [NoOutput EXCEPT !.content = nodes]
        ELSE [NoOutput EXCEPT
                !.content = SubstackUpdateImageReferences(nodes, uploaded),
                !.resources = uploaded,
                !.downloads = [k \in DOMAIN resources |-> resources[k].URL]]

\* ---- one content processed
NoImages == [content |-> <<>>, failed |-> {}, processor |-> "none", out |-> NoOutput]

AlFolioProcessContent ==
    /\ images.processor = "new"
    /\ images' = [images EXCEPT !.processor = "al-folio",
                                !.out = ProcessContent(images.content, images.failed)]
    /\ UNCHANGED notImages

WeChatProcessResourcesOfContent ==
    /\ images.processor = "new"
    /\ images' = [images EXCEPT !.processor = "wechat-official",
                                !.out = WeChatProcessImages(images.content, images.failed)]
    /\ UNCHANGED notImages

SubstackProcessResourcesOfContent ==
    /\ images.processor = "new"
    /\ images' = [images EXCEPT !.processor = "substack",
                                !.out = SubstackProcessImages(images.content, images.failed)]
    /\ UNCHANGED notImages

\* --------------------------------------------------------------- scheduler
\* Scheduler.Start starts two goroutines: one runs the initial sync, the
\* other waits in a select for a tick, for stopCh and for the context.
\* ticker.C holds at most one tick.
MaxCycles == 3

NewScheduler(enabled) ==
    [enabled |-> enabled,
     started |-> FALSE,       \* Start has returned
     ticking |-> FALSE,       \* the ticker exists and is not stopped
     tick |-> FALSE,          \* a tick waits in ticker.C
     stopCh |-> "open",
     ctx |-> "live",
     initial |-> "none",      \* none, spawned, runSync, done
     loop |-> "none",         \* none, select, runSync, returned
     cycles |-> 0]            \* runSync calls begun

NoScheduler == NewScheduler(FALSE)

SchedulerStart ==
    /\ ~sched.started
    /\ sched' = IF ~sched.enabled THEN [sched EXCEPT !.started = TRUE]
                ELSE [sched EXCEPT !.started = TRUE, !.ticking = TRUE,
                                   !.initial = "spawned", !.loop = "select"]
    /\ UNCHANGED notSched

\* the ticker sends a tick; it is dropped when one is waiting already
Tick ==
    /\ sched.ticking
    /\ ~sched.tick
    /\ sched' = [sched EXCEPT !.tick = TRUE]
    /\ UNCHANGED notSched

\* the first goroutine: "Running initial sync"
InitialSync ==
    /\ sched.initial = "spawned"
    /\ sched.cycles < MaxCycles
    /\ sched' = [sched EXCEPT !.initial = "runSync", !.cycles = @ + 1]
    /\ UNCHANGED notSched

InitialSyncReturns ==
    /\ sched.initial = "runSync"
    /\ sched' = [sched EXCEPT !.initial = "done"]
    /\ UNCHANGED notSched

\* the select of the second goroutine: any case that is ready may be taken
ScheduledSync ==
    /\ sched.loop = "select"
    /\ sched.tick
    /\ sched.cycles < MaxCycles
    /\ sched' = [sched EXCEPT !.tick = FALSE, !.loop = "runSync", !.cycles = @ + 1]
    /\ UNCHANGED notSched

ScheduledSyncReturns ==
    /\ sched.loop = "runSync"
    /\ sched' = [sched EXCEPT !.loop = "select"]
    /\ UNCHANGED notSched

SchedulerStopped ==
    /\ sched.loop = "select"
    /\ sched.stopCh = "closed"
    /\ sched' = [sched EXCEPT !.loop = "returned"]
    /\ UNCHANGED notSched

ContextCancelled ==
    /\ sched.loop = "select"
    /\ sched.ctx = "done"
    /\ sched' = [sched EXCEPT !.loop = "returned"]
    /\ UNCHANGED notSched

\* Scheduler.Stop, called once by Server.Shutdown.  Whether a tick that
\* waits in ticker.C outlives ticker.Stop depends on the Go version the
\* module is built for (it does before 1.23): either may happen.
SchedulerStop ==
    /\ sched.started
    /\ sched.stopCh = "open"
    /\ \E kept \in BOOLEAN :
         sched' = [sched EXCEPT !.ticking = FALSE, !.stopCh = "closed",
                                !.tick = @ /\ kept]
    /\ UNCHANGED notSched

Cancel ==
    /\ sched.started
    /\ sched.ctx = "live"
    /\ sched' = [sched EXCEPT !.ctx = "done"]
    /\ UNCHANGED notSched

\* ------------------------------------------------------ the query of a cycle
\* ProcessPendingPages reads the Done pages with Limit(10)
QueryLimit == 10

\* one Done page more than a query returns
DonePages == 1..(QueryLimit + 1)

\* the pages that were published before the first cycle looked at them
Archive == 1..(QueryLimit - 1)

\* the rows of distribution_jobs for the platform al-folio, which every Done
\* page declares: one row for each status a page has rows of, page by page
RECURSIVE StoreRows(_, _)
StoreRows(statuses, p) ==
    IF p \notin DOMAIN statuses THEN <<>>
    ELSE (IF "failed" \in statuses[p]
          THEN <<JobRow(p, 1, "failed", AdapterError, FALSE)>> ELSE <<>>)
         \o (IF "completed" \in statuses[p]
             THEN <<JobRow(p, 1, "completed", "", TRUE)>> ELSE <<>>)
         \o StoreRows(statuses, p + 1)

StoreJobs(statuses) == StoreRows(statuses, 1)

\* db.Where("status = ?", "Done").Limit(10).Find(&pages): the query has no
\* ORDER BY, so it may return any QueryLimit of the Done pages
QueryResults ==
    {b \in SUBSET DonePages :
        Cardinality(b) = IF Cardinality(DonePages) < QueryLimit
                         THEN Cardinality(DonePages) ELSE QueryLimit}

\* the answers needsPublishing can give for a Done page
NeedsOf(statuses, p) ==
    needsPublishing(StoreJobs(statuses), <<"al-folio">>, p, <<"al-folio">>)

NewStore(published) ==
    [statuses |-> [p \in DonePages |-> IF p \in published THEN {"completed"} ELSE {}],
     pc |-> "idle",           \* idle, query, publish
     pending |-> {},          \* pendingPages of the cycle in flight
     dispatched |-> {}]       \* the pages the last cycle gave to PublishToAll

NoStore == NewStore({})

\* Scheduler.runSync calls ProcessPendingPages
StartCycle ==
    /\ store.pc = "idle"
    /\ store' = [store EXCEPT !.pc = "query"]
    /\ UNCHANGED notStore

\* ProcessPendingPages: the query and the needsPublishing filter; a page
\* for which needsPublishing may answer either way passes it or not
QueryAndFilter ==
    /\ store.pc = "query"
    /\ \E batch \in QueryResults :
        \E open \in SUBSET {p \in batch : NeedsOf(store.statuses, p) = {TRUE, FALSE}} :
            store' = [store EXCEPT
                !.pc = "publish",
                !.pending = {p \in batch : NeedsOf(store.statuses, p) = {TRUE}} \cup open,
                !.dispatched = {}]
    /\ UNCHANGED notStore

\* ProcessPendingPages: PublishToAll of the next pending page.
\* PublishToPlatforms skips a platform that has a completed row for the
\* page, and leaves a completed or a failed row otherwise
DispatchPage ==
    /\ store.pc = "publish"
    /\ \E p \in store.pending, status \in {"completed", "failed"} :
        store' = [store EXCEPT
            !.pending = @ \ {p},
            !.dispatched = @ \cup {p},
            !.statuses[p] = IF "completed" \in @ THEN @ ELSE @ \cup {status}]
    /\ UNCHANGED notStore

\* ProcessPendingPages returns
EndCycle ==
    /\ store.pc = "publish"
    /\ store.pending = {}
    /\ store' = [store EXCEPT !.pc = "idle"]
    /\ UNCHANGED notStore

\* ------------------------------------------------- the al-folio repository
\* The local clone of the blog repository that the al-folio adapter writes
\* to: the files of the working tree that are not committed, and the
\* commits made so far.  A file is known by the document it was written
\* for and by what it is.
MaxCommits == 2

Documents == {1, 2}

File(doc, kind) == [doc |-> doc, kind |-> kind]

\* what an attempt for a document writes before it commits:
\* ProcessResources saves the images of the content under the repository
\* path, writePostFile creates _posts/<filename>
WrittenBy(doc, withImages, filename) ==
    {File(doc, filename)} \cup (IF withImages THEN {File(doc, "image")} ELSE {})

NewRepository ==
    [tree |-> {},             \* uncommitted files, staged or not
     commits |-> <<>>,        \* per commit: the document of the Publish and the files
     pushed |-> 0]            \* how many of the commits are on the remote

NoRepository == NewRepository

\* Repository.Initialize of an existing clone: git pull leaves the files of
\* the working tree alone; when the pull fails the directory is removed and
\* cloned again
RepositoryInitialize ==
    /\ \E pull \in {"ok", "failed"} :
        repo' = IF pull = "ok" THEN repo
                ELSE [repo EXCEPT !.tree = {},
                                  !.commits = SubSeq(@, 1, repo.pushed)]
    /\ repo' # repo
    /\ UNCHANGED notRepo

\* AlFolioPublisher.SaveToDraft: the images and _posts/draft_<filename> are
\* written, nothing is committed
RepositorySaveToDraft ==
    /\ \E doc \in Documents, withImages \in BOOLEAN :
        repo' = [repo EXCEPT !.tree = @ \cup WrittenBy(doc, withImages, "draft")]
    /\ UNCHANGED notRepo

\* Repository.Add without arguments is git add "." : every file of the
\* working tree is staged
Add(tree) == tree

\* AlFolioPublisher.Publish after the files of the attempt were written:
\* HasChanges, Add, Commit and Push, any of which may fail
Publish(r, doc, outcome) ==
    IF r.tree = {} THEN r
    ELSE CASE outcome \in {"addErr", "commitErr"} -> r
           [] outcome = "pushErr" ->
                [r EXCEPT !.tree = {},
                          !.commits = Append(@, [doc |-> doc, files |-> Add(r.tree)])]
           [] OTHER ->
                [r EXCEPT !.tree = {},
                          !.commits = Append(@, [doc |-> doc, files |-> Add(r.tree)]),
                          !.pushed = Len(r.commits) + 1]

\* AlFolioPublisher.PublishDirect: the images and _posts/<filename> are
\* written, then Publish
RepositoryPublishDirect ==
    /\ Len(repo.commits) < MaxCommits
    /\ \E doc \in Documents, withImages \in BOOLEAN,
          outcome \in {"ok", "addErr", "commitErr", "pushErr"} :
        repo' = Publish([repo EXCEPT !.tree = @ \cup WrittenBy(doc, withImages, "post")],
                        doc, outcome)
    /\ UNCHANGED notRepo

\* ------------------------------------------------- the dashboard's sessions
\* internal/service/auth.go and the login handler of the server

\* the seconds of the clock, as Unix times
FirstSecond == 1700000000
MaxSeconds == 3
Seconds == FirstSecond..(FirstSecond + MaxSeconds - 1)

\* the paths of the requests: the three the middleware lets through, a page
\* of the dashboard and a route of the API
PublicPaths == {"/login", "/api/v1/auth/login", "/api/v1/auth/setup"}
Paths == PublicPaths \cup {"/", "/api/v1/jobs"}

\* CreateSession: "session_" and the Unix time of the call
CreateSession(now) == "session_" \o ToString(now)

\* the auth_token cookie of a request: none, an empty one, a short one, a
\* string nobody issued, or a string of the form CreateSession gives
NoCookie == [present |-> FALSE, value |-> ""]
Cookie(value) == [present |-> TRUE, value |-> value]
Cookies ==
    {NoCookie} \cup
    {Cookie(v) : v \in {"", "session_1", "not-a-session"} \cup
                       {CreateSession(t) : t \in Seconds}}

isValidSession(token) == Len(token) > 10

\* the answer of redirectToLogin: 401 to a path under /api, a redirect to
\* the login page otherwise
redirectToLogin(path) ==
    IF path # "/" /\ path \in {"/api/v1/jobs", "/api/v1/auth/login", "/api/v1/auth/setup"}
    THEN "401" ELSE "302"

\* the middleware on one request: "next" when the request goes on to its
\* handler
AuthMiddleware(path, cookie) ==
    IF path \in PublicPaths THEN "next"
    ELSE IF ~cookie.present THEN redirectToLogin(path)
    ELSE IF ~isValidSession(cookie.value) THEN redirectToLogin(path)
    ELSE "next"

\* the service: whether the configuration enables authentication, the
\* clock, the session tokens handed out so far, and the last request with
\* what became of it
NewAuth(enabled) ==
    [enabled |-> enabled, now |-> FirstSecond, issued |-> {},
     path |-> "", cookie |-> NoCookie, answer |-> "none"]

NoAuth == NewAuth(FALSE)

ClockTick ==
    /\ auth.now + 1 \in Seconds
    /\ auth' = [auth EXCEPT !.now = @ + 1]
    /\ UNCHANGED notAuth

\* the router runs the middleware only when authentication is enabled
Request ==
    /\ \E path \in Paths \ {"/api/v1/auth/login"}, cookie \in Cookies :
        auth' = [auth EXCEPT !.path = path, !.cookie = cookie,
                             !.answer = IF auth.enabled
                                        THEN AuthMiddleware(path, cookie)
                                        ELSE "next"]
    /\ UNCHANGED notAuth

\* POST /api/v1/auth/login with a TOTP code that ValidateToken accepts or
\* refuses
handleLogin ==
    /\ \E valid \in BOOLEAN, cookie \in Cookies :
        LET through == IF auth.enabled
                       THEN AuthMiddleware("/api/v1/auth/login", cookie)
                       ELSE "next"
        IN  auth' = [auth EXCEPT !.path = "/api/v1/auth/login",
                                 !.cookie = cookie,
                                 !.answer = IF through # "next" THEN through
                                            ELSE IF valid THEN "200" ELSE "401",
                                 !.issued = IF through = "next" /\ valid
                                            THEN @ \cup {CreateSession(auth.now)}
                                            ELSE @]
    /\ UNCHANGED notAuth

\* ----------------------------------------------------------- specifications
\* the registry and the configuration a Manager can be given through
\* RegisterPublisher and SetPlatformConfig
Init ==
    /\ publishers = {"al-folio", "wechat-official"}
    /\ configs \in [AllPlatforms -> {"missing", "enabled", "disabled"}]
    /\ \A p \in AllPlatforms \ publishers : configs[p] = "missing"
    /\ platforms = <<>>
    /\ jobs = <<>>
    /\ workers = [wid \in Workers |-> IdleWorker]
    /\ adapter = NoAdapter
    /\ render = NoRender
    /\ span = NoSpan
    /\ images = NoImages
    /\ sched = NoScheduler
    /\ store = NoStore
    /\ repo = NoRepository
    /\ auth = NoAuth

\* the steps of a cycle or of a PublishToAll in flight, over the page tables
\* and the adapter behaviours it may meet
PublishSteps(wid, tables, behaviours) ==
    \/ \E pages \in tables : ProcessPendingPages(wid, pages)
    \/ PublishToAll(wid)
    \/ LookupPublisher(wid)
    \/ GetPlatformID(wid)
    \/ CreatePlatform(wid)
    \/ CheckCompleted(wid)
    \/ CreateJob(wid)
    \/ \E b \in behaviours : InitializePublisher(wid, b)
    \/ PublishContent(wid)
    \/ Return(wid)

\* the steps of a PublishSinglePlatform in flight
SingleSteps(wid, behaviours) ==
    \/ \E b \in behaviours : PublishSingle(wid, b)
    \/ RecordJob(wid)

\* no other handler is in flight and the job table has room
Alone(wid) == Len(jobs) < MaxJobs /\ \A o \in Workers \ {wid} : Idle(o)

\* handlers run one after the other: the scheduler goroutine runs cycles,
\* the request goroutine serves the routes of the API
Next ==
    \E wid \in Workers :
        \/ Alone(wid) /\ StartProcessPending(wid)
        \/ wid = "api" /\ Alone(wid) /\ \E p \in Pages, l \in LabelLists : PublishPage(wid, p, l)
        \/ wid = "api" /\ Alone(wid) /\
                \E p \in Pages, n \in AllPlatforms, d \in BOOLEAN :
                    PublishSinglePlatform(wid, p, n, d)
        \/ wid = "api" /\ Alone(wid) /\ \E j \in 1..Len(jobs) : RepublishJob(wid, j)
        \/ PublishSteps(wid, PageTables, Behaviours)
        \/ SingleSteps(wid, Behaviours)
        \/ \E n \in publishers, e \in BOOLEAN : SetPlatformConfig(n, e)

Spec == Init /\ [][Next]_vars

\* a scheduled cycle and an on-demand publish of a page overlap: nothing
\* keeps a request from running while runSync is in ProcessPendingPages.
\* The handlers explored are those that start on an empty job table
ConcLabelLists == {<<>>, <<"al-folio">>}

ConcBehaviours == {"ok", "publishFail"}

ConcNext ==
    \E wid \in Workers :
        \/ jobs = <<>> /\ StartProcessPending(wid)
        \/ wid = "api" /\ jobs = <<>> /\
                \E p \in Pages, l \in ConcLabelLists : PublishPage(wid, p, l)
        \/ PublishSteps(wid, [Pages -> ConcLabelLists], ConcBehaviours)

ConcSpec == Init /\ [][ConcNext]_vars

\* the scheduler goroutine alone, with process stops: the ticker of
\* Scheduler.Start starts a cycle again and again, and a cycle that is not
\* stopped goes on to its end.  Page 1 declares al-folio as its platform,
\* by its name or by an alias, all the time; page 2 declares nothing
LiveTables ==
    {t \in [Pages -> LabelLists] : t[1] \in {<<"al-folio">>, <<"Jekyll", "al-folio">>} /\ t[2] = <<>>}

LiveBehaviours == {"ok", "publishFail"}

ScheduledCycle ==
    \/ StartProcessPending("scheduler")
    \/ PublishSteps("scheduler", LiveTables, LiveBehaviours)

LiveNext == ScheduledCycle \/ Crash

FairSpec == Init /\ [][LiveNext]_vars /\ WF_vars(ScheduledCycle)

\* an adapter of any platform under any configuration, called in any order
\* with any content while the outside answers as it likes
AdapterInit ==
    /\ publishers = {"al-folio", "wechat-official"}
    /\ configs = [n \in AllPlatforms |-> "missing"]
    /\ platforms = <<>>
    /\ jobs = <<>>
    /\ workers = [wid \in Workers |-> IdleWorker]
    /\ adapter \in {NewAdapter(name, config) :
                        name \in AllPlatforms, config \in UNION {PublishConfigs(n) : n \in AllPlatforms}}
    /\ adapter.config \in PublishConfigs(adapter.name)
    /\ render = NoRender
    /\ span = NoSpan
    /\ images = NoImages
    /\ sched = NoScheduler
    /\ store = NoStore
    /\ repo = NoRepository
    /\ auth = NoAuth

AdapterNext ==
    \/ AdapterInitialize
    \/ AdapterPublishDirect
    \/ AdapterProcessResources
    \/ AdapterSaveToDraft

AdapterSpec == AdapterInit /\ [][AdapterNext]_vars

\* the scheduler alone, cycle after cycle, over a page table and a
\* configuration that do not change: page 1 declares al-folio, page 2
\* nothing; al-folio or wechat-official may lack a required key
CycleTables == {[p \in Pages |-> IF p = 1 THEN <<"al-folio">> ELSE <<>>]}

CycleBehaviours == {"ok", "configErr", "initErr", "publishFail"}

CycleInit ==
    /\ publishers = {"al-folio", "wechat-official"}
    /\ configs \in [AllPlatforms -> {"missing", "enabled", "invalid"}]
    /\ \A p \in AllPlatforms : configs[p] = "missing" <=> p \notin publishers
    /\ platforms = <<>>
    /\ jobs = <<>>
    /\ workers = [wid \in Workers |-> IdleWorker]
    /\ adapter = NoAdapter
    /\ render = NoRender
    /\ span = NoSpan
    /\ images = NoImages
    /\ sched = NoScheduler
    /\ store = NoStore
    /\ repo = NoRepository
    /\ auth = NoAuth

Cycle ==
    \/ StartProcessPending("scheduler")
    \/ PublishSteps("scheduler", CycleTables, CycleBehaviours)

CycleSpec == CycleInit /\ [][Cycle]_vars /\ WF_vars(Cycle)

\* every block list up to MaxBlocks blocks, converted by each converter
ConverterInit ==
    /\ publishers = {"al-folio", "wechat-official"}
    /\ configs = [n \in AllPlatforms |-> "missing"]
    /\ platforms = <<>>
    /\ jobs = <<>>
    /\ workers = [wid \in Workers |-> IdleWorker]
    /\ adapter = NoAdapter
    /\ render \in {[blocks |-> b, converter |-> "new", out |-> <<>>] : b \in BlockLists}
    /\ span = NoSpan
    /\ images = NoImages
    /\ sched = NoScheduler
    /\ store = NoStore
    /\ repo = NoRepository
    /\ auth = NoAuth

ConverterNext == ConvertToMarkdown \/ ConvertToWeChatHTML \/ ConvertToSubstack

ConverterSpec == ConverterInit /\ [][ConverterNext]_vars

\* every span, formatted by each converter
FormatInit ==
    /\ publishers = {"al-folio", "wechat-official"}
    /\ configs = [n \in AllPlatforms |-> "missing"]
    /\ platforms = <<>>
    /\ jobs = <<>>
    /\ workers = [wid \in Workers |-> IdleWorker]
    /\ adapter = NoAdapter
    /\ render = NoRender
    /\ span \in {[rtMap |-> r, converter |-> "new", out |-> Formatted("", <<>>)] : r \in Spans}
    /\ images = NoImages
    /\ sched = NoScheduler
    /\ store = NoStore
    /\ repo = NoRepository
    /\ auth = NoAuth

FormatNext == FormatMarkdown \/ FormatWeChatHTML \/ FormatSubstack

FormatSpec == FormatInit /\ [][FormatNext]_vars

\* the contents processed: up to MaxImages different images at every
\* distance, and up to MaxVariants images of which some are variants of one
\* file, in either format, and some fail to download
Gaps == {50, Threshold, Threshold + 1}
AssetNames == <<"a", "b", "c", "d", "e">>

RECURSIVE Placed(_, _)
Placed(urls, formats) ==
    IF Len(urls) = 0 THEN {<<>>}
    ELSE IF Len(urls) = 1 THEN {<<Occurrence(urls[1], formats[1], 0)>>}
    ELSE {Append(c, Occurrence(urls[Len(urls)], formats[Len(urls)], c[Len(c)].pos + g)) :
            c \in Placed(SubSeq(urls, 1, Len(urls) - 1), formats), g \in Gaps}

DistinctContents ==
    UNION {Placed([i \in 1..n |-> ImageURL("other", AssetNames[i], "")],
                  [i \in 1..n |-> "markdown"]) : n \in 1..MaxImages}

VariantURLs(host) ==
    {ImageURL(host, "a", q) : q \in {"", "1", "2"}} \cup {ImageURL(host, "b", "")}

VariantContents ==
    UNION {UNION {Placed(urls, formats) :
                    urls \in UNION {[1..n -> VariantURLs(host)] : host \in {"s3", "other"}},
                    formats \in [1..n -> {"markdown", "liquid"}]} :
             n \in 1..MaxVariants}

ImageInit ==
    /\ publishers = {"al-folio", "wechat-official"}
    /\ configs = [n \in AllPlatforms |-> "missing"]
    /\ platforms = <<>>
    /\ jobs = <<>>
    /\ workers = [wid \in Workers |-> IdleWorker]
    /\ adapter = NoAdapter
    /\ render = NoRender
    /\ span = NoSpan
    /\ sched = NoScheduler
    /\ store = NoStore
    /\ repo = NoRepository
    /\ auth = NoAuth
    /\ \/ \E c \in DistinctContents :
            images = [content |-> c, failed |-> {}, processor |-> "new", out |-> NoOutput]
       \/ \E c \in VariantContents :
          \E failed \in SUBSET {c[i].url : i \in DOMAIN c} :
            images = [content |-> c, failed |-> failed, processor |-> "new",
                      out |-> NoOutput]

ImageNext ==
    AlFolioProcessContent \/ WeChatProcessResourcesOfContent
        \/ SubstackProcessResourcesOfContent

ImageSpec == ImageInit /\ [][ImageNext]_vars

\* the scheduler from its construction to its shutdown
SchedulerInit ==
    /\ publishers = {"al-folio", "wechat-official"}
    /\ configs = [n \in AllPlatforms |-> "missing"]
    /\ platforms = <<>>
    /\ jobs = <<>>
    /\ workers = [wid \in Workers |-> IdleWorker]
    /\ adapter = NoAdapter
    /\ render = NoRender
    /\ span = NoSpan
    /\ images = NoImages
    /\ sched \in {NewScheduler(enabled) : enabled \in BOOLEAN}
    /\ store = NoStore
    /\ repo = NoRepository
    /\ auth = NoAuth

SchedulerNext ==
    \/ SchedulerStart
    \/ Tick
    \/ InitialSync
    \/ InitialSyncReturns
    \/ ScheduledSync
    \/ ScheduledSyncReturns
    \/ SchedulerStopped
    \/ ContextCancelled
    \/ SchedulerStop
    \/ Cancel

SchedulerSpec == SchedulerInit /\ [][SchedulerNext]_vars

\* the scheduler's cycles over a store that holds one Done page more than a
\* query returns, nearly all of them published already; the ticker starts
\* a cycle again and again and a cycle goes on to its end
StoreInit ==
    /\ publishers = {"al-folio", "wechat-official"}
    /\ configs = [n \in AllPlatforms |-> "missing"]
    /\ platforms = <<>>
    /\ jobs = <<>>
    /\ workers = [wid \in Workers |-> IdleWorker]
    /\ adapter = NoAdapter
    /\ render = NoRender
    /\ span = NoSpan
    /\ images = NoImages
    /\ sched = NoScheduler
    /\ \E published \in SUBSET DonePages :
        /\ Archive \subseteq published
        /\ store = NewStore(published)
    /\ repo = NoRepository
    /\ auth = NoAuth

StoreNext ==
    \/ StartCycle
    \/ QueryAndFilter
    \/ DispatchPage
    \/ EndCycle

StoreSpec == StoreInit /\ [][StoreNext]_vars /\ WF_vars(StoreNext)

\* the scheduler's cycles over a store that may refuse the insert of a job
\* and works again afterwards
FaultNext ==
    \/ Cycle
    \/ CreateJobFails("scheduler")

FaultSpec == CycleInit /\ [][FaultNext]_vars

\* drafts and publishes of two documents on one clone of the repository
RepositoryInit ==
    /\ publishers = {"al-folio", "wechat-official"}
    /\ configs = [n \in AllPlatforms |-> "missing"]
    /\ platforms = <<>>
    /\ jobs = <<>>
    /\ workers = [wid \in Workers |-> IdleWorker]
    /\ adapter = NoAdapter
    /\ render = NoRender
    /\ span = NoSpan
    /\ images = NoImages
    /\ sched = NoScheduler
    /\ store = NoStore
    /\ repo = NewRepository
    /\ auth = NoAuth

RepositoryNext ==
    \/ RepositoryInitialize
    \/ RepositorySaveToDraft
    \/ RepositoryPublishDirect

RepositorySpec == RepositoryInit /\ [][RepositoryNext]_vars

\* the dashboard with authentication enabled or not: logins and requests
\* with any cookie while the clock goes on
AuthInit ==
    /\ publishers = {"al-folio", "wechat-official"}
    /\ configs = [n \in AllPlatforms |-> "missing"]
    /\ platforms = <<>>
    /\ jobs = <<>>
    /\ workers = [wid \in Workers |-> IdleWorker]
    /\ adapter = NoAdapter
    /\ render = NoRender
    /\ span = NoSpan
    /\ images = NoImages
    /\ sched = NoScheduler
    /\ store = NoStore
    /\ repo = NoRepository
    /\ auth \in {NewAuth(enabled) : enabled \in BOOLEAN}

AuthNext ==
    \/ ClockTick
    \/ Request
    \/ handleLogin

AuthSpec == AuthInit /\ [][AuthNext]_vars

\* ------------------------------------------------------------------ claims
\* the handlers that go through PublishToAll and PublishToPlatforms
ViaPublishToPlatforms == {"pending", "publishAll", "republish"}

\* PublishToPlatforms of worker wid has returned to its caller
Returned(wid) ==
    workers[wid].pc = "ret" /\ workers[wid].entry \in ViaPublishToPlatforms

\* the IDs of the rows of (page, platform name) in tables J, P
JobsOf(J, P, pageID, name) ==
    {i \in 1..Len(J) : J[i].PageID = pageID /\ P[J[i].PlatformID] = name}

\* the IDs of the completed rows of (page, platform name) in tables J, P
CompletedOf(J, P, pageID, name) ==
    {i \in JobsOf(J, P, pageID, name) : J[i].Status = "completed"}

\* the IDs of the rows this call inserted for platform name
CreatedFor(w, name) ==
    {w.created[k].ID : k \in {i \in 1..Len(w.created) :
        /\ jobs[w.created[i].ID].PageID = w.page
        /\ platforms[jobs[w.created[i].ID].PlatformID] = name}}

\* the platform has a publisher and an enabled configuration
Dispatchable(name) == name \in publishers /\ configs[name] = "enabled"

\* the platforms of the batch of w that had a completed job of the page
\* when the call was made
HadCompleted(w) ==
    {name \in Range(w.batch) : CompletedOf(w.jobs0, w.platforms0, w.page, name) # {}}

\* what C1 promises for platform name of the call of w
Skipped(w, name) ==
    /\ CreatedFor(w, name) = {}
    /\ \A c \in w.calls : c[1] # name
    /\ w.results[name].Success
    /\ \E id \in CompletedOf(w.jobs0, w.platforms0, w.page, name) :
            w.results[name].PublishID = <<"existing-job", id>>

\* C1 as stated: when PublishToPlatforms returns, every platform of the
\* batch that had a completed job for the page when the call was made got no
\* new job row and no adapter call, and its result is a success whose
\* publish id names a job that was completed for (page, platform) at the call.
C1_Idempotent ==
    \A wid \in Workers :
        Returned(wid) => \A name \in HadCompleted(workers[wid]) : Skipped(workers[wid], name)

\* C1 amended: the same for the platforms of the batch that have a publisher
\* and an enabled configuration; the lookups come before the check for a
\* completed job, and a platform that fails them gets a failure result.
C1_IdempotentEnabled ==
    \A wid \in Workers :
        Returned(wid) =>
            \A name \in HadCompleted(workers[wid]) :
                Dispatchable(name) => Skipped(workers[wid], name)

\* a call returned that skipped an enabled platform with a completed job and
\* made an attempt on another platform of its batch
C1_Witness ==
    \E wid \in Workers :
        /\ Returned(wid)
        /\ \E name \in HadCompleted(workers[wid]) :
            Dispatchable(name) /\ workers[wid].results[name].Success
        /\ workers[wid].calls # {}

\* C2: at most one job row of any (page, platform) has status completed.
C2_AtMostOneCompleted ==
    \A pageID \in Pages, platformID \in 1..Len(platforms) :
        Cardinality(CompletedJobs(jobs, pageID, platformID)) <= 1

\* C7 as stated: every job row has a status among pending, in_progress,
\* completed and failed.
C7_StatusDomain ==
    \A i \in 1..Len(jobs) :
        jobs[i].Status \in {"pending", "in_progress", "completed", "failed"}

\* C7 amended: every job row has a status among pending, in_progress,
\* completed, failed, draft (written by PublishSinglePlatform as draft) and
\* republish_requested (written by the republish request).
C7_StatusDomainWritten ==
    \A i \in 1..Len(jobs) :
        jobs[i].Status \in {"pending", "in_progress", "completed", "failed",
                            "draft", "republish_requested"}

\* the table holds a draft row and a republish_requested row next to each other
C7_Witness ==
    /\ \E i \in 1..Len(jobs) : jobs[i].Status = "draft"
    /\ \E i \in 1..Len(jobs) : jobs[i].Status = "republish_requested"

\* the platforms of the batch of w that are registered with Enabled=false
DisabledOf(w) == {name \in Range(w.batch) : name \in publishers /\ configs[name] = "disabled"}

\* C9: when PublishToPlatforms returns, every platform of the batch whose
\* configuration has Enabled=false has a non-success result with no publish
\* id, no adapter operation of it was called, no platform row was created
\* for it, and the rows of the job table are those of the time of the call
\* for it: none was added, none was changed.
C9_DisabledSkipped ==
    \A wid \in Workers :
        Returned(wid) =>
            LET w == workers[wid]
            IN  \A name \in DisabledOf(w) :
                    /\ ~w.results[name].Success
                    /\ w.results[name].PublishID = EmptyID
                    /\ w.results[name].Error = "platform is disabled"
                    /\ \A c \in w.calls : c[1] # name
                    /\ name \in Range(platforms) => name \in Range(w.platforms0)
                    /\ \A i \in JobsOf(jobs, platforms, w.page, name) :
                            i <= Len(w.jobs0) /\ jobs[i] = w.jobs0[i]

\* a call returned whose batch held a disabled platform and another platform
\* for which it inserted a job
C9_Witness ==
    \E wid \in Workers :
        /\ Returned(wid)
        /\ DisabledOf(workers[wid]) # {}
        /\ workers[wid].created # <<>>

\* the positions of the labels that the lookup table knows
KnownLabels(labels) == {i \in 1..Len(labels) : labels[i] \in DOMAIN platformMap}

\* a PublishToAll of worker wid has resolved its batch
Resolved(wid) ==
    /\ workers[wid].entry \in ViaPublishToPlatforms
    /\ workers[wid].pc \notin {"idle", "pending", "resolve"}

\* C10: the batch PublishToAll hands on holds one entry per label that the
\* lookup table knows, the canonical key of that label, and nothing for the
\* other labels; when the table knows none of the labels, or there is no
\* label, the batch holds every registered platform once and nothing else.
C10_LabelResolution ==
    \A wid \in Workers :
        Resolved(wid) =>
            LET w == workers[wid]
            IN  IF KnownLabels(w.labels) = {}
                THEN /\ Range(w.batch) = publishers
                     /\ Len(w.batch) = Cardinality(publishers)
                ELSE /\ Range(w.batch) = {platformMap[w.labels[i]] : i \in KnownLabels(w.labels)}
                     /\ Len(w.batch) = Cardinality(KnownLabels(w.labels))

\* a PublishToAll of a page whose only label is unknown went to every
\* registered platform and returned
C10_Witness ==
    \E wid \in Workers :
        /\ Returned(wid)
        /\ workers[wid].labels # <<>>
        /\ KnownLabels(workers[wid].labels) = {}
        /\ \A name \in publishers : workers[wid].results[name] # NoResult

\* what the rows of (page, platform name) say in tables J, P, in the order
\* of their IDs
Outcomes(J, P, pageID, name) ==
    LET rows == SelectSeq(J, LAMBDA r : r.PageID = pageID /\ P[r.PlatformID] = name)
    IN  [i \in DOMAIN rows |-> [Status |-> rows[i].Status, Error |-> rows[i].Error]]

\* the call of w made again from the tables of the time of the call, with
\* the adapters behaving as they did, for the platforms of batch only
Rerun(w, batch) ==
    RunToReturn([IdleWorker EXCEPT !.pc = "loop", !.entry = "publishAll",
                                   !.page = w.page, !.batch = batch, !.idx = 1,
                                   !.beh = w.beh,
                                   !.jobs0 = w.jobs0, !.platforms0 = w.platforms0],
                w.jobs0, w.platforms0)

\* C3: when PublishToPlatforms returns, its map holds a result for every
\* platform of the batch, and for every platform P1 with a failure result
\* and every other platform P2 of the batch, the result of P2 and the
\* statuses of the job rows of (page, P2) are those of the same call made
\* without P1 in the batch.
C3_Isolation ==
    \A wid \in Workers :
        Returned(wid) =>
            LET w == workers[wid]
            IN  /\ \A name \in Range(w.batch) : w.results[name] # NoResult
                /\ \A P1 \in Range(w.batch), P2 \in Range(w.batch) :
                        (~w.results[P1].Success /\ P2 # P1) =>
                            LET alt == Rerun(w, SelectSeq(w.batch, LAMBDA n : n # P1))
                            IN  /\ alt.w.results[P2] = w.results[P2]
                                /\ Outcomes(alt.jobs, alt.platforms, w.page, P2)
                                        = Outcomes(jobs, platforms, w.page, P2)

\* a call returned in which the adapter of one platform failed, after its
\* job was inserted, and the platform after it in the batch was published
C3_Witness ==
    \E wid \in Workers :
        /\ Returned(wid)
        /\ Len(workers[wid].batch) = 2
        /\ workers[wid].batch[1] # workers[wid].batch[2]
        /\ ~workers[wid].results[workers[wid].batch[1]].Success
        /\ <<workers[wid].batch[1], "Initialize">> \in workers[wid].calls
        /\ workers[wid].results[workers[wid].batch[2]].Success
        /\ <<workers[wid].batch[2], "PublishDirect">> \in workers[wid].calls

\* the IDs of the rows the call of w inserted
CreatedIDs(w) == {w.created[k].ID : k \in DOMAIN w.created}

\* how many updates the call of w made of the row id
Updates(w, id) == Cardinality({k \in DOMAIN w.updated : w.updated[k] = id})

\* a PublishToPlatforms of worker wid is under way or has returned
InPublishToPlatforms(wid) ==
    /\ workers[wid].entry \in ViaPublishToPlatforms
    /\ workers[wid].pc \in {"loop", "getid", "mkplat", "check", "create", "init",
                            "publish", "ret"}

C8_SameAsScheduled ==
    \A wid \in Workers :
        (workers[wid].pc = "ret" /\ workers[wid].entry = "single") =>
            LET w == workers[wid]
                name == w.batch[1]
                alt == Rerun(w, w.batch)
            IN  /\ alt.w.results[name].Success = w.results[name].Success
                /\ Outcomes(alt.jobs, alt.platforms, w.page, name)
                        = Outcomes(jobs, platforms, w.page, name)

\* worker wid has inserted the job of its current platform and not yet
\* updated it
Attempting(wid) == workers[wid].pc \in {"init", "publish"}

\* C6: two PublishToPlatforms that overlap on the same (page, platform) and
\* have both passed the completed-job check and inserted hold two different
\* job rows of (page, platform), both in_progress: the second insert is not
\* held back by the first.
C6_TwoInProgress ==
    \A w1 \in Workers, w2 \in Workers :
        (/\ w1 # w2
         /\ Attempting(w1) /\ Attempting(w2)
         /\ workers[w1].page = workers[w2].page
         /\ workers[w1].platformID = workers[w2].platformID) =>
            /\ workers[w1].job.ID # workers[w2].job.ID
            /\ \A w \in {w1, w2} :
                /\ workers[w].job.ID \in 1..Len(jobs)
                /\ jobs[workers[w].job.ID] =
                        JobRow(workers[w].page, workers[w].platformID, "in_progress", "", FALSE)

\* the cycle of the scheduler and a request are both attempting the same
\* (page, platform), and the table holds two in_progress rows for it
C6_Witness ==
    /\ Attempting("scheduler") /\ Attempting("api")
    /\ workers["scheduler"].entry = "pending"
    /\ workers["api"].entry = "publishAll"
    /\ \E i \in 1..Len(jobs), j \in 1..Len(jobs) :
        /\ i # j
        /\ jobs[i].PageID = jobs[j].PageID
        /\ jobs[i].PlatformID = jobs[j].PlatformID
        /\ jobs[i].Status = "in_progress"
        /\ jobs[j].Status = "in_progress"

\* row j is in_progress and no handler holds it: its attempt was interrupted
Interrupted(j) ==
    /\ j \in 1..Len(jobs)
    /\ jobs[j].Status = "in_progress"
    /\ \A wid \in Workers : workers[wid].job.ID # j

Terminal(j) == j \in 1..Len(jobs) /\ jobs[j].Status \in {"completed", "failed"}

\* C5: if the scheduler starts cycles again and again and the process is,
\* from some time on, no longer stopped, every row that an interrupted
\* attempt left in_progress is completed or failed at some later time.
C5_EventuallyTerminal ==
    \A j \in 1..MaxJobs :
        ([]<>(workers["scheduler"].pc = "pending") /\ <>[][~Crash]_vars)
            => [](Interrupted(j) => <>Terminal(j))

\* ------------------------------------------------------- adapter contracts
\* the last call on the adapter was a PublishDirect that returned
DirectReturned == adapter.op = "PublishDirect" /\ adapter.err # Panic

\* the stages the PublishDirect went through
StageNames == {adapter.stages[i].name : i \in 1..Len(adapter.stages)}

\* the stage of PublishDirect that creates the draft (the post file of the
\* al-folio adapter) was reached and went well
DraftCreated ==
    \E i \in 1..Len(adapter.stages) :
        adapter.stages[i].name \in {"SaveToDraft", "writePostFile"} /\ adapter.stages[i].ok

\* C11: stage short-circuit in PublishDirect, for every adapter: when
\* TransformContent, ProcessResources or SaveToDraft returned an error or a
\* result with Success = false, that stage is the last one PublishDirect
\* invoked (Publish is not invoked after it) and the result it returns has
\* Success = false.
C11_ShortCircuit ==
    DirectReturned =>
        \A i \in 1..Len(adapter.stages) :
            /\ adapter.stages[i].name \in {"TransformContent", "ProcessResources", "SaveToDraft"}
            /\ ~adapter.stages[i].ok
            => i = Len(adapter.stages) /\ ~adapter.result.Success

\* C12: auto-publish gate, for every adapter: a PublishDirect under a
\* configuration with auto_publish = "false" whose draft creation succeeded
\* returns success and did not invoke the adapter's Publish.
C12_AutoPublishGate ==
    DirectReturned /\ adapter.config["auto_publish"] = "false" /\ DraftCreated =>
        adapter.result.Success /\ "Publish" \notin StageNames

\* the Publish stage of the PublishDirect was reached and failed
PublishFailed ==
    \E i \in 1..Len(adapter.stages) :
        adapter.stages[i].name = "Publish" /\ ~adapter.stages[i].ok

\* C13: draft success is never downgraded, for every adapter: a
\* PublishDirect under auto_publish = "true" whose draft creation succeeded
\* and whose Publish failed returns Success = true with the publish id of
\* the draft and a non-empty publish_error metadata entry.
C13_DraftNotDowngraded ==
    /\ DirectReturned
    /\ adapter.config["auto_publish"] = "true"
    /\ DraftCreated
    /\ PublishFailed
    => /\ adapter.result.Success
       /\ adapter.result.publish_error # ""
       /\ \E i \in 1..Len(adapter.stages) :
            /\ adapter.stages[i].name \in {"SaveToDraft", "writePostFile"}
            /\ adapter.result.PublishID = adapter.stages[i].PublishID

\* the positions of an operation or request in the list of the last call
Positions(name) == {i \in 1..Len(adapter.calls) : adapter.calls[i] = name}

\* the last call was a Substack ProcessResources on content with image
\* resources and no draft id
WithoutDraft ==
    /\ adapter.name = "substack"
    /\ adapter.op = "ProcessResources"
    /\ adapter.given.Resources # <<>>
    /\ adapter.given.draft_id = ""

\* C14: ordering dependency of ProcessResources on Substack: called on
\* content with image resources and no draft id it fails with the
\* prerequisite-missing error, uploads no image and leaves the content (body
\* and resource list) as it was; and in a SaveToDraft every run of
\* ProcessResources comes after the creation of the draft.
C14_DraftBeforeResources ==
    /\ WithoutDraft =>
        /\ adapter.err = "draft_id not found in metadata - needed for image uploads"
        /\ Positions("uploadImage") = {}
        /\ adapter.content = adapter.given
    /\ adapter.name = "substack" /\ adapter.op = "SaveToDraft" =>
        \A i \in Positions("ProcessResources") :
            \E j \in Positions("createDraft") : j < i

C14_Witness == WithoutDraft /\ adapter.err # ""

\* the last call was an Initialize under a configuration with a required
\* key of the platform missing or empty
InvalidConfig ==
    /\ adapter.op = "Initialize"
    /\ \E k \in Range(Required(adapter.name)) : adapter.config[k] = ""

\* C16: Initialize validates first, for every adapter: under a
\* configuration with a required key missing or empty it returns the
\* configuration error of such a key, has attempted nothing but the
\* validation (no token exchange, no repository operation), and the fields
\* of the adapter (access token, repository, domain, cookie) are as before.
C16_ValidateFirst ==
    InvalidConfig =>
        /\ \E k \in Range(Required(adapter.name)) :
            /\ adapter.config[k] = ""
            /\ adapter.err = "missing required config: " \o k
        /\ adapter.calls = <<"ValidateConfig">>
        /\ adapter.p = adapter.before

\* the configuration lost a key after an Initialize that had succeeded
C16_Witness == InvalidConfig /\ adapter.before # NewPublisher

\* ------------------------------------------------------------------ Cleanup
\* the PublishDirect of an attempt returned success
Succeeded(a) == a.err = "" /\ a.result.Success

ConfigFailed(pageID, name) ==
    \E i \in JobsOf(jobs, platforms, pageID, name) :
        jobs[i].Status = "failed" /\ jobs[i].Error = ConfigError

\* the adapter operations a handler working on the page has called for name
CallsFor(W, pageID, name) ==
    {<<wid, c[2]>> : wid \in {x \in Workers : W[x].page = pageID},
                     c \in {d \in UNION {W[x].calls : x \in Workers} : d[1] = name}}

\* C17: configuration errors are never retried: once a row of (page,
\* platform) has failed because Initialize reported a missing required key,
\* no step of a later cycle inserts a row for (page, platform) or calls an
\* operation of the platform's adapter for the page, the configuration being
\* the same throughout.
C17_NoRetry ==
    [][\A pageID \in Pages, name \in AllPlatforms :
            ConfigFailed(pageID, name) =>
                /\ JobsOf(jobs', platforms', pageID, name) = JobsOf(jobs, platforms, pageID, name)
                /\ \A wid \in Workers :
                    workers'[wid].page = pageID =>
                        {c \in workers'[wid].calls : c[1] = name} \subseteq workers[wid].calls
      ]_vars

\* the last row of the table is a failed row of (page, platform name) with
\* the error of a failed authentication or publish, (page, platform) has no
\* completed row, and the table has room
FailedLast(pageID, name, n) ==
    /\ Len(jobs) = n
    /\ n < MaxJobs
    /\ n \in JobsOf(jobs, platforms, pageID, name)
    /\ jobs[n].Status = "failed"
    /\ jobs[n].Error = AdapterError
    /\ CompletedOf(jobs, platforms, pageID, name) = {}

\* the scheduler inserted a further row for (page, platform name) and has
\* called Initialize on the adapter for it
Redispatched(pageID, name, n) ==
    /\ Len(jobs) > n
    /\ n + 1 \in JobsOf(jobs, platforms, pageID, name)
    /\ workers["scheduler"].page = pageID
    /\ <<name, "Initialize">> \in workers["scheduler"].calls

C19_TerminalRow ==
    \A wid \in Workers :
        InPublishToPlatforms(wid) =>
            \A k \in DOMAIN workers[wid].attempts :
                LET a == workers[wid].attempts[k]
                IN  /\ Succeeded(a) =>
                        /\ jobs[a.job].Status = "completed"
                        /\ jobs[a.job].Error = ""
                        /\ jobs[a.job].PublishedAt
                    /\ ~Succeeded(a) =>
                        /\ jobs[a.job].Status = "failed"
                        /\ jobs[a.job].Error = IF a.err # "" THEN a.err ELSE a.result.Error

\* the numbers a conversion shows, each with the block it renders: the
\* counter printed in a markdown or HTML item, the position of an item in
\* its ordered_list (which starts at 1) in a Substack document
RenderedNumbers ==
    IF render.converter = "substack"
    THEN UNION {{[src |-> n.Content[k].src, number |-> k] : k \in DOMAIN n.Content} :
                  n \in {m \in Range(render.out) : m.Type = "ordered_list"}}
    ELSE {[src |-> l.src, number |-> l.number] :
            l \in {m \in Range(render.out) : m.number > 0}}

\* a block the specification calls skipped: one without a recognised
\* payload, or one whose rich text is empty
SkippedBlock(block) ==
    \/ block.type = ""
    \/ ~block.payload
    \/ block.type \in {"paragraph", "numbered_list_item", "bulleted_list_item"}
       /\ block.text = ""

\* C20: in every converter, two rendered numbered items with only skipped
\* blocks (empty rich text or unrecognised payload) between them are
\* numbered consecutively: the skipped blocks do not reset the counter.
C20_CounterSurvivesSkips ==
    render.converter \notin {"none", "new"} =>
        \A x, y \in RenderedNumbers :
            (/\ x.src < y.src
             /\ \A m \in (x.src + 1)..(y.src - 1) : SkippedBlock(render.blocks[m]))
            => y.number = x.number + 1

\* a block that is processed and is not a numbered item
ProcessedOther(block) ==
    ~SkippedBlock(block) /\ block.type # "numbered_list_item"

\* the rendered numbered item of block i, if any
NumberAt(i) == {x \in RenderedNumbers : x.src = i}

\* C21: in every converter a rendered numbered item that directly follows
\* a rendered numbered item shows that item's number plus one, and a
\* rendered numbered item whose nearest preceding processed block is not a
\* numbered item (or that has no processed block before it) shows 1.
C21_IncrementAndReset ==
    render.converter \notin {"none", "new"} =>
        \A y \in RenderedNumbers :
            LET before == {m \in 1..(y.src - 1) : ~SkippedBlock(render.blocks[m])}
                last == IF before = {} THEN 0
                        ELSE CHOOSE m \in before : \A k \in before : k <= m
            IN  /\ \A x \in NumberAt(y.src - 1) : y.number = x.number + 1
                /\ (last = 0 \/ ProcessedOther(render.blocks[last])) => y.number = 1

\* the wrappers in their fixed order
FormattingOrder == <<"bold", "italic", "code", "strikethrough", "underline", "link">>

\* the wrappers a span asks for, in that order
Wanted(rtMap) ==
    LET has(what) == IF what = "link" THEN rtMap.href # ""
                     ELSE rtMap.annotations /\ what \in rtMap.set
        RECURSIVE from(_)
        from(k) == IF k > Len(FormattingOrder) THEN <<>>
                   ELSE IF has(FormattingOrder[k])
                        THEN <<FormattingOrder[k]>> \o from(k + 1)
                        ELSE from(k + 1)
    IN  from(1)

\* C22: for every span and every combination of annotations and link, each
\* converter applies exactly the wrappers the span asks for, in the order
\* bold, italic, code, strikethrough, underline, link, each around the
\* previous result; none is dropped or reordered.
C22_FixedFormattingOrder ==
    span.converter \notin {"none", "new"} => span.out.applied = Wanted(span.rtMap)

\* the URLs of the content that is processed, and the places of one of them
ContentURLs == {images.content[i].url : i \in DOMAIN images.content}
PlacesOf(url) == {i \in DOMAIN images.content : images.content[i].url = url}

\* the download attempts and the uploaded resources of one file
AttemptsOf(url) ==
    {k \in DOMAIN images.out.downloads :
        normalizeImageURL(images.out.downloads[k]) = normalizeImageURL(url)}
ResourcesOf(url) ==
    {k \in DOMAIN images.out.resources :
        normalizeImageURL(images.out.resources[k].original_url) = normalizeImageURL(url)}

\* C23: two image URLs of a content that differ only in their query string
\* are one resource: the file is downloaded once and has one destination.
C23_VariantsAreOneResource ==
    images.processor \notin {"none", "new"} =>
        \A u, v \in ContentURLs :
            (u # v /\ normalizeImageURL(u) = normalizeImageURL(v)) =>
                /\ Cardinality(AttemptsOf(u)) = 1
                /\ Cardinality(ResourcesOf(u)) <= 1

\* the position of the first occurrence of a URL
FirstPos(url) ==
    LET at == {images.content[i].pos : i \in PlacesOf(url)}
    IN  CHOOSE p \in at : \A q \in at : p <= q
FirstPlace(url) == CHOOSE i \in PlacesOf(url) : images.content[i].pos = FirstPos(url)

\* C24: after the rewrite every layout group has exactly one embed, at the
\* first occurrence of its first image; the other occurrences of its images
\* are blank; the embed names each image of the group exactly once.
C24_RewriteLosesNothing ==
    images.processor = "al-folio" =>
        \A g \in DOMAIN images.out.groups :
            LET group == images.out.groups[g]
                places == UNION {PlacesOf(group[k]) : k \in DOMAIN group}
                first == FirstPlace(group[1])
                embed == images.out.content[first]
            IN  /\ embed.kind = "html"
                /\ \A i \in places \ {first} : images.out.content[i].kind = "blank"
                /\ \A k \in DOMAIN group :
                       Cardinality({j \in DOMAIN embed.includes :
                                      embed.includes[j] =
                                          pathOf(images.out.imageMap, group[k])}) = 1

\* the groups one after the other
RECURSIVE Flat(_)
Flat(groups) == IF groups = <<>> THEN <<>> ELSE Head(groups) \o Flat(Tail(groups))

GroupOf(url) ==
    CHOOSE g \in DOMAIN images.out.groups : url \in Range(images.out.groups[g])

\* C25: the images are grouped in the order of their first occurrence; an
\* image is in the group of the image before it exactly when its first
\* occurrence is at most 200 characters after that image's.
C25_GroupingThreshold ==
    images.processor = "al-folio" =>
        LET order == Flat(images.out.groups)
        IN  /\ Range(order) = ContentURLs
            /\ Len(order) = Cardinality(ContentURLs)
            /\ \A k \in 1..(Len(order) - 1) :
                   /\ FirstPos(order[k]) < FirstPos(order[k + 1])
                   /\ (GroupOf(order[k]) = GroupOf(order[k + 1]))
                      <=> (FirstPos(order[k + 1]) - FirstPos(order[k]) <= 200)

\* two images 50 characters apart made one group of two, a third one 201
\* characters further a group of its own
C25_Witness ==
    /\ images.processor = "al-folio"
    /\ Len(images.content) = 3
    /\ images.content[2].pos = 50
    /\ images.content[3].pos = 251
    /\ Len(images.out.groups) = 2
    /\ Len(images.out.groups[1]) = 2
    /\ images.out.htmls[1].columns = 2
    /\ images.out.htmls[2].columns = 1

\* the columns of a layout
ColumnsOf(layout) ==
    CASE layout = "SingleImage" -> 1
      [] layout = "TwoColumnRow" -> 2
      [] layout = "ThreeColumnRow" -> 3
      [] layout = "FourColumnRow" -> 4

\* C26: a group of 1, 2, 3 or 4 images has that many columns, a larger one
\* has two, and the embed generated for a group has the columns of the
\* layout determineLayout chooses for it.
C26_LayoutBySize ==
    images.processor = "al-folio" =>
        \A g \in DOMAIN images.out.groups :
            LET n == Len(images.out.groups[g])
            IN  /\ determineLayout(n) =
                       CASE n = 1 -> "SingleImage" [] n = 2 -> "TwoColumnRow"
                         [] n = 3 -> "ThreeColumnRow" [] n = 4 -> "FourColumnRow"
                         [] OTHER -> "TwoColumnRow"
                /\ images.out.htmls[g].columns = ColumnsOf(determineLayout(n))

\* a place of the output shows a URL
Shows(node, url) ==
    \/ node.kind \in {"markdown", "liquid", "img"} /\ node.url = url
    \/ node.kind = "html" /\ url \in Range(node.includes)

\* C27: when the download or upload of some image fails, the processor of
\* every adapter returns no error, every other image is still attempted
\* and gets its resource, and the URL of the failing image is still in the
\* content.
C27_PerImageDegradation ==
    (images.processor \notin {"none", "new"} /\ images.failed # {}) =>
        /\ images.out.err = ""
        /\ \A u \in ContentURLs \ images.failed :
               /\ u \in Range(images.out.downloads)
               /\ \E k \in DOMAIN images.out.resources :
                      images.out.resources[k].original_url = u
        /\ \A u \in images.failed :
               \E i \in DOMAIN images.out.content : Shows(images.out.content[i], u)

\* C28: the scheduler never has two runSync executions in flight at the
\* same time, the initial one and the first ticker-driven one included.
C28_SingleActiveCycle ==
    ~(sched.initial = "runSync" /\ sched.loop = "runSync")

\* a step in which a runSync begins
CycleStarts == sched'.cycles = sched.cycles + 1

\* C29: once Stop has returned or the context is cancelled, no new cycle
\* is started (a cycle in flight is not interrupted by either).
C29_ShutdownStopsScheduling ==
    [][(sched.stopCh = "closed" \/ sched.ctx = "done") => ~CycleStarts]_vars

\* ---------------------------------------------------- the dispatch decision
\* the set of platforms PublishToAll resolves for a list of labels
TargetsOf(labels) ==
    IF Len(MappedPlatforms(labels)) = 0
    THEN publishers
    ELSE Range(MappedPlatforms(labels))

\* some platform PublishToAll would resolve for the page has no completed job
HasOpenTarget(pageID, labels) ==
    \E name \in TargetsOf(labels) : CompletedOf(jobs, platforms, pageID, name) = {}

\* ProcessPendingPages is at its filter
Filtering == \E wid \in Workers : workers[wid].pc = "pending"

\* C30: ProcessPendingPages dispatches a Done page exactly when the set of
\* platforms PublishToAll would resolve for it (the mapped labels, or every
\* registered platform when no label maps) holds a platform without a
\* completed job: whatever labels the page row has when the filter runs,
\* the answer of needsPublishing is that and no other.
C30_DispatchAgrees ==
    Filtering =>
        \A p \in Pages, labels \in LabelLists :
            needsPublishing(jobs, platforms, p, labels) = {HasOpenTarget(p, labels)}

\* ------------------------------------------------------------ pending pages
\* a Done page without a completed job for its target platform
LacksCompleted(p) == "completed" \notin store.statuses[p]

\* C31: under repeated cycles every Done page that lacks a completed job
\* for one of its target platforms is eventually given to PublishToAll,
\* however many other Done pages the store holds.
C31_NoStarvation ==
    \A p \in DonePages : LacksCompleted(p) ~> (p \in store.dispatched)

\* ------------------------------------------------------------------ republish
\* the republish handler of worker wid returns
RepublishEnds(wid) ==
    /\ workers[wid].entry = "republish"
    /\ workers[wid].pc # "idle"
    /\ workers'[wid] = IdleWorker

\* the job the handler of worker wid loaded was completed
RepublishedCompleted(wid, j) ==
    /\ workers[wid].republish.ID = j
    /\ workers[wid].republish.row.Status = "completed"

\* a row inserted after row j for the page and the platform of row j: the
\* insert is followed by Initialize on the adapter
AttemptAfter(j) ==
    \E k \in (j + 1)..Len(jobs) :
        /\ jobs[k].PageID = jobs[j].PageID
        /\ jobs[k].PlatformID = jobs[j].PlatformID
        /\ jobs[k].Status \in {"completed", "failed"}

\* C32: when the handler of a republish request returns, a new attempt was
\* made for the page and the platform of the completed job it was for: a
\* new row was inserted and the adapter was called (the platform being
\* registered and enabled, the table having room for the row).
C32_RepublishTakesEffect ==
    [][\A wid \in Workers, j \in 1..Len(jobs) :
        (/\ RepublishEnds(wid)
         /\ RepublishedCompleted(wid, j)
         /\ Dispatchable(platforms[jobs[j].PlatformID])
         /\ Len(jobs) < MaxJobs)
            => AttemptAfter(j)]_vars

\* ---------------------------------------------------------- the job insert
\* the call of w has called Initialize or PublishDirect for platform name
AdapterInvoked(w, name) ==
    \E op \in {"Initialize", "PublishDirect"} : <<name, op>> \in w.calls

\* C33: PublishToPlatforms calls Initialize or PublishDirect of an adapter
\* only after the in_progress row of that attempt is in the table: a
\* platform whose adapter the call has invoked has a row that this call
\* inserted, and a platform whose insert failed has no adapter call.
C33_InvocationBackedByRow ==
    \A wid \in Workers :
        InPublishToPlatforms(wid) =>
            \A name \in AllPlatforms :
                AdapterInvoked(workers[wid], name) =>
                    \E k \in DOMAIN workers[wid].created :
                        /\ workers[wid].created[k].Status = "in_progress"
                        /\ workers[wid].created[k].ID \in
                               JobsOf(jobs, platforms, workers[wid].page, name)

\* -------------------------------------------------------------- list grouping
\* the places of the list items of a Substack document: list node n, item k
ListPlaces ==
    {<<n, k>> \in (DOMAIN render.out) \X (1..MaxBlocks) :
        /\ render.out[n].Type \in {"bullet_list", "ordered_list"}
        /\ k \in DOMAIN render.out[n].Content}

\* the block a place renders
BlockAt(pl) == render.out[pl[1]].Content[pl[2]].src

\* the non-empty bulleted and numbered items of the input
ItemBlocks ==
    {i \in DOMAIN render.blocks :
        /\ render.blocks[i].type \in {"bulleted_list_item", "numbered_list_item"}
        /\ ~SkippedBlock(render.blocks[i])}

\* a processed block that is not a list item
BreaksList(block) ==
    ~SkippedBlock(block) /\ block.type \notin {"bulleted_list_item", "numbered_list_item"}

\* C34: in the document of the Substack converter every non-empty bulleted
\* or numbered item of the input is in exactly one list node, the items are
\* in input order, and two items with a processed block that is not a list
\* item between them are in different list nodes.
C34_ListGroupingLosesNothing ==
    render.converter = "substack" =>
        /\ \A i \in ItemBlocks :
               Cardinality({pl \in ListPlaces : BlockAt(pl) = i}) = 1
        /\ \A p, q \in ListPlaces :
               (p[1] < q[1] \/ (p[1] = q[1] /\ p[2] < q[2])) => BlockAt(p) < BlockAt(q)
        /\ \A p, q \in ListPlaces :
               (\E m \in (BlockAt(p) + 1)..(BlockAt(q) - 1) : BreaksList(render.blocks[m]))
                    => p[1] # q[1]

\* ------------------------------------------------------ converters compared
\* the skip flag the block converter of a platform returns for each block
SkipFlags(converter, blocks) ==
    [i \in DOMAIN blocks |->
        CASE converter = "al-folio" -> convertBlockToMarkdownWithCounter(blocks[i], i, 0).skip
          [] converter = "wechat-official" ->
                convertBlockToWeChatHTMLWithCounter(blocks[i], i, 0).skip
          [] OTHER -> convertBlockToSubstack(blocks[i], i, 0).skip]

\* the output of the converter of a platform
OutputOf(converter, blocks) ==
    CASE converter = "al-folio" -> convertNotionBlocksToMarkdown(blocks)
      [] converter = "wechat-official" -> convertNotionBlocksToWeChatHTML(blocks)
      [] OTHER -> convertNotionBlocksToSubstack(blocks)

\* the numbered items of an output with the numbers they show
NumbersFrom(converter, out) ==
    IF converter = "substack"
    THEN UNION {{[src |-> n.Content[k].src, number |-> k] : k \in DOMAIN n.Content} :
                  n \in {m \in Range(out) : m.Type = "ordered_list"}}
    ELSE {[src |-> l.src, number |-> l.number] : l \in {m \in Range(out) : m.number > 0}}

\* C35: for every block sequence the three converters skip the same blocks
\* and give the numbered items the same numbers: what the converter that
\* ran skipped and numbered is what each of the other two skips and numbers.
C35_ConvertersAgree ==
    render.converter \notin {"none", "new"} =>
        \A other \in AllPlatforms :
            /\ SkipFlags(other, render.blocks) = SkipFlags(render.converter, render.blocks)
            /\ NumbersFrom(other, OutputOf(other, render.blocks)) = RenderedNumbers

\* ------------------------------------------------------ the commit of a Publish
\* C36: a Publish for a document commits only files written for that
\* document by its own attempt: no commit holds a file that was written for
\* another document.
C36_CommitOwnFilesOnly ==
    \A k \in DOMAIN repo.commits :
        \A f \in repo.commits[k].files : f.doc = repo.commits[k].doc

\* ---- C37
\* an instance on which no Initialize has got past its validation: no
\* access token, no repository object, no domain. None of the three is ever
\* taken back, so such an instance has no successful Initialize behind it
NeverInitialized(name, p) ==
    CASE name = "wechat-official" -> p.accessToken = ""
      [] name = "al-folio" -> p.repository = "nil"
      [] name = "substack" -> p.domain = ""

\* the uploads, draft creations, publish requests and repository operations
\* of the three adapters
Operations ==
    {"uploadImage", "addDraft", "publishDraft", "createDraft", "CreateFile",
     "HasChanges", "Add", "Commit", "Push"}

Performed == {adapter.calls[i] : i \in DOMAIN adapter.calls} \cap Operations

\* C37: PublishDirect on an adapter instance that has no successful
\* Initialize behind it returns a failed result and goes through no upload,
\* no draft creation, no publish request and no repository operation
C37_LifecycleOrder ==
    (adapter.op = "PublishDirect" /\ NeverInitialized(adapter.name, adapter.before)) =>
        /\ adapter.err = ""
        /\ ~adapter.result.Success
        /\ Performed = {}

\* ---- C38
\* a request for a protected route that went on to its handler
Admitted == auth.path \in Paths \ PublicPaths /\ auth.answer = "next"

\* C38: with authentication enabled, a request for a protected route is
\* admitted only when its auth_token cookie is a session token that a
\* successful login handed out before
C38_SessionAuthenticity ==
    (auth.enabled /\ Admitted) =>
        (auth.cookie.present /\ auth.cookie.value \in auth.issued)

====
